---- MODULE Spec2Model ----
(***************************************************************************)
(* A model of the nikopoke battle engine: the event applier                *)
(* (engine/core/events.js), the effect compiler and the ability registry   *)
(* (engine/core/factory.js), the status registry and the minimax policy    *)
(* (engine-legacy/ai_cli.js), the turn resolver stepBattle                 *)
(* (unnamed/part_006) and replayBattle (engine-legacy/core/replay.js).     *)
(*                                                                         *)
(* Encoding.  JS null/undefined of a numeric field is the integer `null`,  *)
(* of a string field the string `undef`.  An RNG value v in [0,1) is the   *)
(* integer 100*v (hundredths).  Team slots are JS indices (0-based); the   *)
(* team itself is a TLA+ sequence, so slot k is team[k+1].  A log line is  *)
(* a record [m, n, x, y, z]: the message template, the name it mentions    *)
(* and up to three numbers.  Speeds, powers and multipliers are exact      *)
(* rationals <<n, d>>.                                                     *)
(***************************************************************************)
EXTENDS Integers, Sequences, FiniteSets, TLC

null == -1000
undef == "undefined"

\* Bound on the number of turns a behaviour resolves.
MaxTurn == 2

StageKeys == {"atk", "def", "spa", "spd", "spe", "acc", "eva"}
ZeroStages == [k \in StageKeys |-> 0]

PlayerOrder == <<"p1", "p2">>
PlayerIds == {"p1", "p2"}
Other(pid) == IF pid = "p1" THEN "p2" ELSE "p1"

Max(a, b) == IF a >= b THEN a ELSE b
Min(a, b) == IF a <= b THEN a ELSE b
Abs(a) == IF a >= 0 THEN a ELSE -a

RECURSIVE Gcd(_, _)
Gcd(a, b) == IF b = 0 THEN a ELSE Gcd(b, a % b)

\* Exact rationals <<n, d>> with d > 0, kept in lowest terms.
Rat(n, d) ==
  IF n = 0 THEN <<0, 1>>
  ELSE LET g == Gcd(Abs(n), d) IN <<n \div g, d \div g>>
RMul(a, b) ==
  IF a[1] = 0 \/ b[1] = 0 THEN <<0, 1>>
  ELSE LET g1 == Max(1, Gcd(Abs(a[1]), b[2]))
           g2 == Max(1, Gcd(Abs(b[1]), a[2]))
       IN  Rat((a[1] \div g1) * (b[1] \div g2), (a[2] \div g2) * (b[2] \div g1))
\* The product of a sequence of factors, taken from the left
RECURSIVE RProd(_)
RProd(factors) ==
  IF Len(factors) = 1 THEN factors[1]
  ELSE RProd(<<RMul(factors[1], factors[2])>> \o SubSeq(factors, 3, Len(factors)))
RAdd(a, b) == Rat(a[1] * b[2] + b[1] * a[2], a[2] * b[2])
RFloor(a) == a[1] \div a[2]
RLeq(a, b) == a[1] * b[2] <= b[1] * a[2]

\* formatStages prints the five battle stages only.
LoggedStageKeys == {"atk", "def", "spa", "spd", "spe"}
formatStages(stages) == [k \in LoggedStageKeys |-> stages[k]]
Line(m, n, x, y, z) ==
  [m |-> m, n |-> n, x |-> x, y |-> y, z |-> z,
   b |-> formatStages(ZeroStages), a |-> formatStages(ZeroStages)]
Msg(m, n) == Line(m, n, 0, 0, 0)
StageLine(m, n, before, after) ==
  [Msg(m, n) EXCEPT !.b = formatStages(before), !.a = formatStages(after)]

(***************************************************************************)
(* Statuses and creatures                                                  *)
(***************************************************************************)
NoData == [sourceId |-> undef, moveId |-> undef, mode |-> undef, turns |-> null,
           triggerTurn |-> null, targetId |-> undef, timing |-> undef,
           itemId |-> undef, effects |-> <<>>]
Status(id, remainingTurns, data) == [id |-> id, remainingTurns |-> remainingTurns, data |-> data]

HasStatus(c, id) == \E i \in 1..Len(c.statuses) : c.statuses[i].id = id

NoVolatile == [lastMove |-> undef, protectSuccessCount |-> 0]

\* createCreature: the dynamic part of a battle-ready creature.
createCreature(name, types, moveIds, ability, item, maxHp, speed) ==
  [name |-> name, level |-> 50, types |-> types, moves |-> moveIds,
   ability |-> ability, item |-> item,
   hp |-> maxHp, maxHp |-> maxHp,
   statuses |-> <<>>, stages |-> ZeroStages,
   movePp |-> [m \in {} |-> 0],
   attack |-> 50, defense |-> 50, spAttack |-> 50, spDefense |-> 50, speed |-> speed,
   abilityData |-> {}, volatileData |-> NoVolatile]

\* createBattleState
createBattleState(team1, team2) ==
  [players |-> [p \in PlayerIds |->
                  [id |-> p, name |-> p, team |-> IF p = "p1" THEN team1 ELSE team2,
                   activeSlot |-> 0, lastFaintedAbility |-> undef]],
   field |-> [global |-> <<>>],
   turn |-> 0,
   log |-> <<>>,
   history |-> <<>>,
   hasHistory |-> FALSE]

\* getActiveCreature / currentCreature: team[activeSlot]
SlotOk(player, slot) == slot \in 0..(Len(player.team) - 1)
\* (a slot that names no member yields undefined: the creature NoCreature)
NoCreature == [createCreature(undef, <<>>, <<>>, undef, undef, 0, 0) EXCEPT !.level = 0]
getActiveCreature(state, pid) ==
  IF SlotOk(state.players[pid], state.players[pid].activeSlot)
    THEN state.players[pid].team[state.players[pid].activeSlot + 1]
    ELSE NoCreature
SetActive(state, pid, c) ==
  IF SlotOk(state.players[pid], state.players[pid].activeSlot)
    THEN [state EXCEPT !.players[pid].team[state.players[pid].activeSlot + 1] = c]
    ELSE state
PushLog(state, line) == [state EXCEPT !.log = Append(@, line)]

stageMultiplierNum(stage) ==
  LET s == Max(-6, Min(6, stage)) IN IF s >= 0 THEN 2 + s ELSE 2
stageMultiplierDen(stage) ==
  LET s == Max(-6, Min(6, stage)) IN IF s >= 0 THEN 2 ELSE 2 - s
stageMultiplier(stage) == Rat(stageMultiplierNum(stage), stageMultiplierDen(stage))

(***************************************************************************)
(* Events (engine/core/events.js)                                          *)
(***************************************************************************)
NoMeta == [source |-> undef, moveId |-> undef, target |-> undef, from |-> undef,
           bounced |-> FALSE, competitive |-> FALSE, opportunist |-> FALSE,
           parentalBond |-> FALSE, cancellable |-> FALSE, ohko |-> FALSE]
NoStageDelta == [k \in {} |-> 0]
NoEvent ==
  [type |-> undef, targetId |-> undef, playerId |-> undef, slot |-> null,
   amount |-> 0, statusId |-> undef, duration |-> null, stack |-> FALSE,
   data |-> NoData, from |-> undef, to |-> undef, stages |-> NoStageDelta,
   clamp |-> TRUE, failIfNoChange |-> FALSE, showEvent |-> TRUE,
   message |-> Msg(undef, undef), pool |-> undef, meta |-> NoMeta]
EvLog(line) == [NoEvent EXCEPT !.type = "log", !.message = line]
EvLogM(line, meta) == [NoEvent EXCEPT !.type = "log", !.message = line, !.meta = meta]
EvSwitch(pid, slot) == [NoEvent EXCEPT !.type = "switch", !.playerId = pid, !.slot = slot]
EvDamage(targetId, amount, meta) ==
  [NoEvent EXCEPT !.type = "damage", !.targetId = targetId, !.amount = amount, !.meta = meta]
EvApplyStatus(targetId, statusId, duration, stack, data, meta) ==
  [NoEvent EXCEPT !.type = "apply_status", !.targetId = targetId, !.statusId = statusId,
                  !.duration = duration, !.stack = stack, !.data = data, !.meta = meta]
EvRemoveStatus(targetId, statusId, meta) ==
  [NoEvent EXCEPT !.type = "remove_status", !.targetId = targetId,
                  !.statusId = statusId, !.meta = meta]
EvModifyStage(targetId, stages, clamp, failIfNoChange, showEvent, meta) ==
  [NoEvent EXCEPT !.type = "modify_stage", !.targetId = targetId, !.stages = stages,
                  !.clamp = clamp, !.failIfNoChange = failIfNoChange,
                  !.showEvent = showEvent, !.meta = meta]
EvApplyField(statusId, duration, stack, data, meta) ==
  [NoEvent EXCEPT !.type = "apply_field_status", !.statusId = statusId,
                  !.duration = duration, !.stack = stack, !.data = data, !.meta = meta]

PrimaryStatuses == {"burn", "poison", "toxic", "paralysis", "sleep", "freeze"}

AbilityOf(state, pid) == getActiveCreature(state, pid).ability

\* runAbilityCheckHook(.., "onCheckStatusImmunity", {statusId}): immunity, insomnia, own_tempo
onCheckStatusImmunity(state, pid, statusId) ==
  LET ab == AbilityOf(state, pid) IN
  \/ ab = "immunity" /\ statusId \in {"poison", "toxic"}
  \/ ab = "insomnia" /\ statusId = "sleep"
  \/ ab = "own_tempo" /\ statusId = "confusion"

\* runAbilityValueHook(.., "onModifyStage", stages): contrary negates, simple doubles
onModifyStage(state, pid, stages) ==
  LET ab == AbilityOf(state, pid) IN
  IF ab = "contrary" THEN [k \in DOMAIN stages |-> -stages[k]]
  ELSE IF ab = "simple" THEN [k \in DOMAIN stages |-> stages[k] * 2]
  ELSE stages

PendingSwitch == Status("pending_switch", null, NoData)
AddPendingSwitch(c) ==
  IF HasStatus(c, "pending_switch") THEN c
  ELSE [c EXCEPT !.statuses = Append(@, PendingSwitch)]

\* case "switch": the outgoing creature is reset, activeSlot is assigned, and the
\* log line reads incoming.name, which throws a TypeError when team[slot] is undefined.
applyEventTolerant(state, event) == FALSE
applyEventThrows(state, event) ==
  /\ event.type = "switch"
  /\ event.playerId \in PlayerIds
  /\ ~SlotOk(state.players[event.playerId], event.slot)

\* (a switch that leaves the outgoing creature as it is)
applySwitchKeepsVolatile(state, event) ==
  LET s1 == [state EXCEPT !.players[event.playerId].activeSlot = event.slot]
  IN  PushLog(s1, Msg("sent out", getActiveCreature(s1, event.playerId).name))

applySwitch(state, event) ==
  LET pid == event.playerId
      player == state.players[pid]
      outgoing == player.team[player.activeSlot + 1]
      cleared == [outgoing EXCEPT
                    !.stages = ZeroStages,
                    !.statuses = SelectSeq(@, LAMBDA s : s.id \in PrimaryStatuses),
                    !.abilityData = {},
                    !.volatileData = NoVolatile]
      s1 == [state EXCEPT !.players[pid].team[player.activeSlot + 1] = cleared,
                          !.players[pid].activeSlot = event.slot]
  IN  PushLog(s1, Msg("sent out", getActiveCreature(s1, pid).name))

applyApplyStatus(state, event) ==
  LET target == getActiveCreature(state, event.targetId) IN
  IF onCheckStatusImmunity(state, event.targetId, event.statusId)
    THEN PushLog(state, Msg("is immune to " \o event.statusId, target.name))
  ELSE IF HasStatus(target, event.statusId) /\ ~event.stack
    THEN PushLog(state, Msg("already has " \o event.statusId, target.name))
  ELSE PushLog(SetActive(state, event.targetId,
                 [target EXCEPT !.statuses =
                    Append(@, Status(event.statusId, event.duration, event.data))]),
               Msg("is now " \o event.statusId, target.name))

applyRemoveStatus(state, event) ==
  LET target == getActiveCreature(state, event.targetId)
      kept == SelectSeq(target.statuses, LAMBDA s : s.id # event.statusId)
      s1 == SetActive(state, event.targetId, [target EXCEPT !.statuses = kept])
  IN  IF Len(kept) # Len(target.statuses)
        THEN PushLog(s1, Msg("is no longer " \o event.statusId, target.name))
        ELSE s1

applyCureAllStatus(state, event) ==
  LET target == getActiveCreature(state, event.targetId) IN
  IF Len(target.statuses) > 0
    THEN PushLog(SetActive(state, event.targetId, [target EXCEPT !.statuses = <<>>]),
                 Msg("statuses were cured", target.name))
    ELSE state

applyReplaceStatus(state, event) ==
  LET target == getActiveCreature(state, event.targetId)
      kept == SelectSeq(target.statuses, LAMBDA s : s.id # event.from)
  IN  IF ~HasStatus(target, event.from) THEN state
      ELSE PushLog(SetActive(state, event.targetId,
                     [target EXCEPT !.statuses =
                        Append(kept, Status(event.to, event.duration, event.data))]),
                   Msg(event.from \o " changed to " \o event.to, target.name))

FieldIndex(state, id) ==
  LET g == state.field.global
      hits == {i \in 1..Len(g) : g[i].id = id}
  IN  IF hits = {} THEN 0 ELSE CHOOSE i \in hits : \A j \in hits : i <= j

applyApplyFieldStatus(state, event) ==
  LET idx == FieldIndex(state, event.statusId)
      entry == Status(event.statusId, event.duration, event.data)
  IN  IF idx > 0 /\ ~event.stack
        THEN [state EXCEPT !.field.global[idx] = entry]
        ELSE [state EXCEPT !.field.global = Append(@, entry)]

applyRemoveFieldStatus(state, event) ==
  [state EXCEPT !.field.global = SelectSeq(@, LAMBDA s : s.id # event.statusId)]

applyModifyStage(state, event) ==
  LET c == getActiveCreature(state, event.targetId)
      adjusted == onModifyStage(state, event.targetId, event.stages)
      before == c.stages
      after == [k \in StageKeys |->
                  IF k \in DOMAIN adjusted
                    THEN LET raw == before[k] + adjusted[k]
                         IN  IF event.clamp THEN Max(-6, Min(6, raw)) ELSE raw
                    ELSE before[k]]
      changed == \E k \in DOMAIN adjusted : before[k] # after[k]
      s1 == SetActive(state, event.targetId, [c EXCEPT !.stages = after])
  IN  IF ~changed /\ event.failIfNoChange
        THEN PushLog(s1, Msg("stats did not change", c.name))
      ELSE IF changed /\ event.showEvent
        THEN PushLog(s1, StageLine("stages", c.name, before, after))
      ELSE s1

applyClearStages(state, event, word) ==
  LET target == getActiveCreature(state, event.targetId)
      s1 == SetActive(state, event.targetId, [target EXCEPT !.stages = ZeroStages])
  IN  IF event.showEvent
        THEN PushLog(s1, StageLine(word, target.name, target.stages, ZeroStages))
        ELSE s1

applyDamage(state, event) ==
  LET target == getActiveCreature(state, event.targetId)
      before == target.hp
      after == Max(0, before - event.amount)
      s1 == PushLog(SetActive(state, event.targetId, [target EXCEPT !.hp = after]),
                    Line("took damage", target.name, event.amount, before, after))
  IN  IF after = 0
        THEN LET s2 == PushLog(s1, Msg("fainted", target.name))
                 t2 == getActiveCreature(s2, event.targetId)
             IN  [SetActive(s2, event.targetId, AddPendingSwitch(t2))
                    EXCEPT !.players[event.targetId].lastFaintedAbility = target.ability]
        ELSE s1

applyForceSwitch(state, event) ==
  SetActive(state, event.targetId, AddPendingSwitch(getActiveCreature(state, event.targetId)))

\* applyEvent: the only state mutator.  Events that name a target are no-ops when
\* getActiveCreature finds no player of that id.
applyEvent(state, event) ==
  LET hasTarget == event.targetId \in PlayerIds IN
  CASE event.type = "log" ->
         IF event.message.m # undef THEN PushLog(state, event.message) ELSE state
    [] event.type = "switch" ->
         IF event.playerId \in PlayerIds THEN applySwitch(state, event) ELSE state
    [] event.type = "apply_status" /\ hasTarget -> applyApplyStatus(state, event)
    [] event.type = "remove_status" /\ hasTarget -> applyRemoveStatus(state, event)
    [] event.type = "cure_all_status" /\ hasTarget -> applyCureAllStatus(state, event)
    [] event.type = "replace_status" /\ hasTarget -> applyReplaceStatus(state, event)
    [] event.type = "apply_field_status" -> applyApplyFieldStatus(state, event)
    [] event.type = "remove_field_status" -> applyRemoveFieldStatus(state, event)
    [] event.type = "modify_stage" /\ hasTarget -> applyModifyStage(state, event)
    [] event.type = "clear_stages" /\ hasTarget -> applyClearStages(state, event, "stages were cleared")
    [] event.type = "reset_stages" /\ hasTarget -> applyClearStages(state, event, "stages were reset")
    [] event.type = "damage" /\ hasTarget -> applyDamage(state, event)
    [] event.type \in {"self_switch", "force_switch"} /\ hasTarget -> applyForceSwitch(state, event)
    [] OTHER -> state

(***************************************************************************)
(* Move definitions (the DSL records of data/moves; the entries used here  *)
(* are those registered by the test suites and shown in the DSL reference) *)
(***************************************************************************)
NoCond == [type |-> undef, statusId |-> undef, value |-> <<0, 1>>, typeId |-> undef]
NoEffect ==
  [type |-> undef, power |-> 0, accuracy |-> null, statusId |-> undef, target |-> undef,
   duration |-> null, durationMax |-> null, stack |-> FALSE, data |-> NoData, chance |-> null,
   stages |-> NoStageDelta, clamp |-> TRUE, fail_if_no_change |-> FALSE,
   show_event |-> TRUE, p |-> 0, then |-> <<>>, else |-> <<>>,
   times |-> 1, timesMax |-> null, effects |-> <<>>, if |-> NoCond,
   ratioMaxHp |-> <<0, 1>>, afterTurns |-> 0, timing |-> undef, itemId |-> undef,
   pool |-> undef, message |-> undef, from |-> undef, to |-> undef, moveId |-> undef]
FxDamageRatio(ratioMaxHp, target) ==
  [NoEffect EXCEPT !.type = "damage_ratio", !.ratioMaxHp = ratioMaxHp, !.target = target]
FxDamage(power, accuracy) ==
  [NoEffect EXCEPT !.type = "damage", !.power = power, !.accuracy = accuracy]
FxModifyStage(target, stages) ==
  [NoEffect EXCEPT !.type = "modify_stage", !.target = target, !.stages = stages]
FxApplyStatus(statusId, target, data) ==
  [NoEffect EXCEPT !.type = "apply_status", !.statusId = statusId, !.target = target,
                   !.data = data]
FxApplyField(statusId, duration) ==
  [NoEffect EXCEPT !.type = "apply_field_status", !.statusId = statusId,
                   !.duration = duration]
FxProtect == [NoEffect EXCEPT !.type = "protect"]
\* { type: "conditional", if: { type: "target_hp_lt", value }, then, else }
FxIfTargetHpLt(value, then, else) ==
  [NoEffect EXCEPT !.type = "conditional",
                   !.if = [NoCond EXCEPT !.type = "target_hp_lt", !.value = value],
                   !.then = then, !.else = else]
FxLog(message) == [NoEffect EXCEPT !.type = "log", !.message = message]
\* { type: "repeat", times: { min, max }, effects }
FxRepeat(min, max, effects) ==
  [NoEffect EXCEPT !.type = "repeat", !.times = min, !.timesMax = max, !.effects = effects]
FxOverTime(duration, timing, effects) ==
  [NoEffect EXCEPT !.type = "over_time", !.duration = duration, !.timing = timing,
                   !.effects = effects]
FxDelay(afterTurns, timing, effects) ==
  [NoEffect EXCEPT !.type = "delay", !.afterTurns = afterTurns, !.timing = timing,
                   !.effects = effects]

NoMoveDef ==
  [id |-> undef, name |-> undef, type |-> undef, category |-> undef, priority |-> null,
   pp |-> null, critRate |-> 0, tags |-> {}, effects |-> <<>>, defined |-> FALSE]
MoveOf(id, type, category, priority, effects) ==
  [NoMoveDef EXCEPT !.id = id, !.name = id, !.type = type, !.category = category,
                    !.priority = priority, !.effects = effects, !.defined = TRUE]

moves ==
  [tackle |-> [MoveOf("tackle", "normal", "physical", 0, <<FxDamage(40, 100)>>)
                 EXCEPT !.pp = 35],
   quick_attack |-> MoveOf("quick_attack", undef, undef, 1, <<FxDamage(40, null)>>),
   prio_status |-> MoveOf("prio_status", undef, "status", 0,
                          <<FxModifyStage("self", [def |-> 1])>>),
   growl_test |-> MoveOf("growl_test", undef, undef, null,
                         <<FxModifyStage("target", [atk |-> -1])>>),
   swords_dance_test |-> MoveOf("swords_dance_test", undef, undef, null,
                                <<FxModifyStage("self", [atk |-> 2])>>),
   raw_boost |-> MoveOf("raw_boost", undef, "status", null,
                        <<[FxModifyStage("self", [atk |-> 2]) EXCEPT !.clamp = FALSE]>>),
   leech_seed |-> MoveOf("leech_seed", "grass", "status", null,
                         <<FxApplyStatus("leech_seed", "target",
                                         [NoData EXCEPT !.sourceId = "self"])>>),
   rain_dance |-> MoveOf("rain_dance", "water", "status", null,
                         <<FxApplyField("rain", 5)>>),
   hail |-> MoveOf("hail", "ice", "status", null, <<FxApplyField("hail", 5)>>),
   \* (the tests' future_strike, landing after one turn instead of two)
   future_strike |-> MoveOf("future_strike", undef, undef, null,
                            <<FxDelay(1, undef, <<FxDamage(100, null)>>)>>),
   \* (a delay whose effects run in the turn-start hooks)
   doom_desire |-> MoveOf("doom_desire", undef, undef, null,
                          <<FxDelay(1, "turn_start", <<FxDamage(100, null)>>)>>),
   protect |-> MoveOf("protect", "normal", "status", 4, <<FxProtect>>),
   \* (the multi-hit move of the multi-hit and Skill Link tests)
   icicle_spear |-> MoveOf("icicle_spear", "ice", "physical", null,
                           <<FxRepeat(2, 5, <<FxDamage(25, 100)>>)>>),
   \* (delays of 0 and 1 turns with either timing, around one log effect each)
   late_start |-> MoveOf("late_start", undef, undef, null,
                         <<FxDelay(1, "turn_start", <<FxLog("late_start fired")>>)>>),
   now_start |-> MoveOf("now_start", undef, undef, null,
                        <<FxDelay(0, "turn_start", <<FxLog("now_start fired")>>)>>),
   late_end |-> MoveOf("late_end", undef, undef, null,
                       <<FxDelay(1, "turn_end", <<FxLog("late_end fired")>>)>>),
   now_end |-> MoveOf("now_end", undef, undef, null,
                      <<FxDelay(0, undef, <<FxLog("now_end fired")>>)>>),
   \* (over_time effects of 1 and 2 turns, around one log effect each)
   ot_end1 |-> MoveOf("ot_end1", undef, undef, null,
                      <<FxOverTime(1, "turn_end", <<FxLog("ot_end1 ran")>>)>>),
   ot_end2 |-> MoveOf("ot_end2", undef, undef, null,
                      <<FxOverTime(2, undef, <<FxLog("ot_end2 ran")>>)>>),
   ot_start2 |-> MoveOf("ot_start2", undef, undef, null,
                        <<FxOverTime(2, "turn_start", <<FxLog("ot_start2 ran")>>)>>),
   \* (the status move of the Magic Bounce test)
   poison_spore |-> MoveOf("poison_spore", undef, "status", null,
                           <<FxApplyStatus("poison", "target", NoData)>>),
   \* (a move that makes its user switch, and a move with one PP)
   pivot_test |-> MoveOf("pivot_test", undef, "status", null,
                         <<[NoEffect EXCEPT !.type = "self_switch"]>>),
   one_shot |-> [MoveOf("one_shot", undef, "status", null, <<FxLog("one_shot used")>>)
                   EXCEPT !.pp = 1],
   \* (damage moves with a critical rate and an accuracy of 50% and of 40%)
   slash_test |-> [MoveOf("slash_test", "normal", "physical", null, <<FxDamage(40, 50)>>)
                     EXCEPT !.critRate = 1],
   lob_test |-> [MoveOf("lob_test", "normal", "physical", null, <<FxDamage(40, 40)>>)
                   EXCEPT !.critRate = 2],
   \* (a damage move with one PP)
   jab_shot |-> [MoveOf("jab_shot", "normal", "physical", null, <<FxDamage(40, 100)>>)
                   EXCEPT !.pp = 1],
   \* (damage_ratio as in the DSL reference: half of max HP, a ratio under one
   \* point, and a negative ratio on the user)
   super_fang |-> MoveOf("super_fang", "normal", "status", null,
                         <<FxDamageRatio(<<1, 2>>, "target")>>),
   chip_test |-> MoveOf("chip_test", "normal", "status", null,
                        <<FxDamageRatio(<<1, 200>>, "target")>>),
   mend_test |-> MoveOf("mend_test", "normal", "status", null,
                        <<FxDamageRatio(<<-1, 2>>, "self")>>),
   \* (an effect of every turn end that reports whether its target is under 3/5
   \* of its max HP)
   probe_ot |-> MoveOf("probe_ot", undef, "status", null,
                       <<FxOverTime(2, "turn_end",
                           <<FxIfTargetHpLt(<<3, 5>>, <<FxLog("probe saw less")>>,
                                            <<FxLog("probe saw more")>>)>>)>>),
   \* (a sleep of three turns, in the manner of the moves with a duration)
   lull_test |-> MoveOf("lull_test", undef, "status", null,
                        <<[FxApplyStatus("sleep", "target", NoData) EXCEPT !.duration = 3]>>),
   \* (an apply_status of an item status: the target is given a berry)
   bestow_test |-> MoveOf("bestow_test", undef, "status", null,
                          <<FxApplyStatus("berry", "target", NoData)>>),
   \* (typed moves in the manner of the tests' type cases)
   spark_test |-> MoveOf("spark_test", "electric", "special", null, <<FxDamage(40, 100)>>),
   steel_tap |-> MoveOf("steel_tap", "steel", "physical", null, <<FxDamage(1, 100)>>),
   smog_test |-> MoveOf("smog_test", "poison", "special", null, <<FxDamage(60, 100)>>),
   ember_test |-> MoveOf("ember_test", undef, undef, null, <<FxDamage(40, null)>>),
   wait |-> MoveOf("wait", undef, undef, null, <<>>)]

MoveDef(id) == IF id \in DOMAIN moves THEN moves[id] ELSE NoMoveDef

HasDamageEffect(move) == \E i \in 1..Len(move.effects) : move.effects[i].type = "damage"
\* isStatusMove (core/utils): an undefined move has no damage effect, hence counts as status
isStatusMove(move) ==
  IF move.category # undef THEN move.category = "status" ELSE ~HasDamageEffect(move)
getMoveCategory(move) ==
  IF move.category # undef THEN move.category
  ELSE IF HasDamageEffect(move) THEN "physical" ELSE "status"

(***************************************************************************)
(* RNG sources.  A source is a cycle of values (a caller's generator), or  *)
(* the closure replayBattle builds over one turn's recorded draws, which   *)
(* falls back to Math.random once the record is exhausted, or Math.random  *)
(* itself; a hook that is handed no rng ("absent") calls Math.random       *)
(* directly, unrecorded.  w.ri counts the draws made through the step's    *)
(* recorder, w.mi the Math.random draws.                                   *)
(***************************************************************************)
CycleAt(cyc, i) == cyc[((i - 1) % Len(cyc)) + 1]
RngCycle(vals, mr) == [kind |-> "cycle", vals |-> vals, mr |-> mr]
RngReplay(vals, mr) == [kind |-> "replay", vals |-> vals, mr |-> mr]
\* Math.random itself passed as the generator
RngMathRandom(mr) == [kind |-> "random", vals |-> <<>>, mr |-> mr]
UsesMathRandom(rng, w) ==
  \/ rng.kind \in {"random", "absent"}
  \/ rng.kind = "replay" /\ w.ri + 1 > Len(rng.vals)
RngValue(rng, w) ==
  IF UsesMathRandom(rng, w) THEN CycleAt(rng.mr, w.mi + 1)
  ELSE IF rng.kind = "replay" THEN rng.vals[w.ri + 1]
  ELSE CycleAt(rng.vals, w.ri + 1)
\* rngRecorder: every draw of the step is pushed on rngLog
RngAdvance(rng, w) ==
  [w EXCEPT !.ri = IF rng.kind = "absent" THEN @ ELSE @ + 1,
            !.mi = IF UsesMathRandom(rng, w) THEN @ + 1 ELSE @,
            !.rngLog = IF rng.kind = "absent" THEN @ ELSE Append(@, RngValue(rng, w))]

\* thrown: the step was left before its end, and nothing else of it runs; hung: it
\* was left for a loop that never exits, so the step never ends at all
Work(state) ==
  [st |-> state, ri |-> 0, mi |-> 0, rngLog |-> <<>>, thrown |-> FALSE, hung |-> FALSE]

\* applyEvent under exception propagation: once an exception is thrown nothing
\* else of the step runs.
ApplyW(w, event) ==
  IF w.thrown THEN w
  ELSE IF applyEventThrows(w.st, event) THEN [w EXCEPT !.thrown = TRUE]
  ELSE [w EXCEPT !.st = applyEvent(w.st, event)]

\* Call(fn, args) applies the function of the engine that is named fn to args.
\* JavaScript evaluates the arguments of a call before the callee runs; the tuple
\* of arguments is built before the callee runs, too, whereas the arguments of an
\* operator are evaluated where the operator first uses them.  The functions that
\* call one another across the engine are applied through Call.
RECURSIVE Call(_, _)

RECURSIVE applyEventsW(_, _)
applyEventsW(w, events) ==
  IF events = <<>> THEN w ELSE applyEventsW(Call("ApplyW", <<w, Head(events)>>), Tail(events))

(***************************************************************************)
(* Type chart (engine/data/type_chart.js)                                  *)
(***************************************************************************)
\* typeChart[targetType]: the move types it resists and is weak to (rawTypes)
typeChart ==
  [normal |-> [resists |-> {},
         weakTo |-> {"fighting"}],
   fire |-> [resists |-> {"grass", "ice", "bug", "steel", "fairy"},
         weakTo |-> {"water", "ground", "rock"}],
   water |-> [resists |-> {"steel", "fire", "water"},
         weakTo |-> {"electric", "grass"}],
   electric |-> [resists |-> {"flying", "steel", "electric"},
         weakTo |-> {"ground"}],
   grass |-> [resists |-> {"ground", "water", "grass"},
         weakTo |-> {"fire", "ice", "poison", "flying", "bug"}],
   ice |-> [resists |-> {"ice"},
         weakTo |-> {"fire", "fighting", "rock", "steel"}],
   fighting |-> [resists |-> {"rock", "bug", "dark"},
         weakTo |-> {"flying", "psychic", "fairy"}],
   poison |-> [resists |-> {"grass", "fighting", "poison", "bug"},
         weakTo |-> {"ground", "psychic"}],
   ground |-> [resists |-> {"poison", "rock"},
         weakTo |-> {"water", "grass", "ice"}],
   flying |-> [resists |-> {"fighting", "bug", "grass"},
         weakTo |-> {"electric", "ice", "rock"}],
   psychic |-> [resists |-> {"fighting", "psychic"},
         weakTo |-> {"bug", "ghost", "dark"}],
   bug |-> [resists |-> {"grass", "fighting", "ground"},
         weakTo |-> {"fire", "flying", "rock"}],
   rock |-> [resists |-> {"normal", "flying", "poison", "fire"},
         weakTo |-> {"water", "grass", "fighting", "ground", "steel"}],
   ghost |-> [resists |-> {"poison", "bug"},
         weakTo |-> {"ghost", "dark"}],
   dragon |-> [resists |-> {"grass", "fire", "water", "electric"},
         weakTo |-> {"ice", "dragon", "fairy"}],
   dark |-> [resists |-> {"ghost", "dark"},
         weakTo |-> {"fighting", "bug", "fairy"}],
   steel |-> [resists |-> {"normal", "flying", "rock", "bug", "steel", "grass", "psychic", "ice", "dragon", "fairy"},
         weakTo |-> {"fire", "water", "ground"}],
   fairy |-> [resists |-> {"fighting", "bug", "dark"},
         weakTo |-> {"poison", "steel"}]]
typeImmunities ==
  [normal |-> {"ghost"}, ghost |-> {"normal", "fighting"}, steel |-> {"poison"}, flying |-> {"ground"}, dark |-> {"psychic"}, ground |-> {"electric"}, fairy |-> {"dragon"}]

\* (the product of the chart's multipliers alone)
RECURSIVE typeChartProduct(_, _, _)
typeChartProduct(moveKey, targets, multiplier) ==
  IF targets = <<>> THEN multiplier
  ELSE LET t == Head(targets) IN
       IF t \notin DOMAIN typeChart THEN typeChartProduct(moveKey, Tail(targets), multiplier)
       ELSE typeChartProduct(moveKey, Tail(targets),
              RMul(RMul(multiplier, IF moveKey \in typeChart[t].weakTo THEN <<2, 1>> ELSE <<1, 1>>),
                   IF moveKey \in typeChart[t].resists THEN <<1, 2>> ELSE <<1, 1>>))

RECURSIVE typeEffectivenessFrom(_, _, _)
typeEffectivenessFrom(moveKey, targets, multiplier) ==
  IF targets = <<>> THEN multiplier
  ELSE LET t == Head(targets) IN
       IF t \in DOMAIN typeImmunities /\ moveKey \in typeImmunities[t] THEN <<0, 1>>
       ELSE IF t \notin DOMAIN typeChart
         THEN typeEffectivenessFrom(moveKey, Tail(targets), multiplier)
       ELSE LET m1 == IF moveKey \in typeChart[t].weakTo
                        THEN RMul(multiplier, <<2, 1>>) ELSE multiplier
                m2 == IF moveKey \in typeChart[t].resists
                        THEN RMul(m1, <<1, 2>>) ELSE m1
            IN  typeEffectivenessFrom(moveKey, Tail(targets), m2)
getTypeEffectiveness(moveType, targetTypes) ==
  IF moveType = undef THEN <<1, 1>> ELSE typeEffectivenessFrom(moveType, targetTypes, <<1, 1>>)

(***************************************************************************)
(* Ability value hooks (abilities registry, engine/core/factory.js)        *)
(***************************************************************************)
SeqHas(seq, x) == \E i \in 1..Len(seq) : seq[i] = x

\* getWeather: the first global entry that is sun or rain
getWeather(state) ==
  LET g == state.field.global
      hits == {i \in 1..Len(g) : g[i].id \in {"sun", "rain"}}
  IN  IF hits = {} THEN undef ELSE g[CHOOSE i \in hits : \A j \in hits : i <= j].id

onModifyPower(state, pid, value, move, category) ==
  LET c == getActiveCreature(state, pid)
      ab == c.ability
      x15 == RMul(value, <<3, 2>>)
  IN  CASE ab = "sharpness" -> IF "slicing" \in move.tags THEN x15 ELSE value
        [] ab = "technician" -> IF RLeq(value, <<60, 1>>) THEN x15 ELSE value
        [] ab = "steelworker" -> IF move.type = "steel" THEN x15 ELSE value
        [] ab = "hustle" -> IF category = "physical" THEN x15 ELSE value
        [] ab = "pure_power" -> IF category = "physical" THEN RMul(value, <<2, 1>>) ELSE value
        [] ab = "guts" -> IF category = "physical" /\ Len(c.statuses) > 0 THEN x15 ELSE value
        [] OTHER -> value

onDefensivePower(state, pid, value, move) ==
  IF AbilityOf(state, pid) = "thick_fat" /\ move.type \in {"fire", "ice"}
    THEN RMul(value, <<1, 2>>) ELSE value

onModifyOffense(state, pid, value, category, turn) ==
  IF AbilityOf(state, pid) = "slow_start" /\ turn <= 5 /\ category = "physical"
    THEN RMul(value, <<1, 2>>) ELSE value

onModifyDefense(state, pid, value, category) ==
  IF AbilityOf(state, pid) = "fur_coat" /\ category = "physical"
    THEN RMul(value, <<2, 1>>) ELSE value

onModifyAccuracy(state, pid, value, category) ==
  LET ab == AbilityOf(state, pid) IN
  CASE ab = "hustle" -> IF category = "physical" THEN RMul(value, <<4, 5>>) ELSE value
    [] ab = "compound_eyes" -> RMul(value, <<13, 10>>)
    [] OTHER -> value

onModifyCritChance(state, pid, value, target) ==
  LET ab == AbilityOf(state, pid) IN
  CASE ab = "merciless" ->
         IF HasStatus(target, "poison") \/ HasStatus(target, "toxic") THEN 999 ELSE value
    [] ab = "super_luck" -> value + 1
    [] OTHER -> value

onModifySpeed(state, pid, value, weather, turn) ==
  LET c == getActiveCreature(state, pid)
      ab == c.ability
  IN  CASE ab = "quick_feet" -> IF Len(c.statuses) > 0 THEN RMul(value, <<3, 2>>) ELSE value
        [] ab = "swift_swim" -> IF weather = "rain" THEN RMul(value, <<2, 1>>) ELSE value
        [] ab = "chlorophyll" -> IF weather = "sun" THEN RMul(value, <<2, 1>>) ELSE value
        [] ab = "slow_start" -> IF turn <= 5 THEN RMul(value, <<1, 2>>) ELSE value
        [] OTHER -> value

\* prankster: +1 on status moves; every other ability leaves the priority alone
onModifyPriority(state, pid, value, move) ==
  IF AbilityOf(state, pid) = "prankster" /\ isStatusMove(move) THEN value + 1 ELSE value

\* creatureSpeed (core/battle) and computeSpeed (effects): speed * stageMultiplier(spe),
\* then onModifySpeed
creatureSpeed(state, pid) ==
  LET c == getActiveCreature(state, pid)
  IN  onModifySpeed(state, pid, RMul(<<c.speed, 1>>, stageMultiplier(c.stages["spe"])),
                    getWeather(state), state.turn)

(***************************************************************************)
(* The damage formula (calcDamage and its helpers)                         *)
(***************************************************************************)
\* (the draw decides at every stage above 0)
rollCriticalByDraw(state, w, ctx, rng) ==
  LET move == Call("MoveDef", <<ctx.move>>)
      target == getActiveCreature(state, ctx.targetPlayerId)
      critStage == onModifyCritChance(state, ctx.attackerPlayerId, move.critRate, target)
      roll == RngValue(rng, w)
  IN  IF ctx.parentalBondHit \/ critStage <= 0 THEN [w |-> w, crit |-> FALSE]
      ELSE [w |-> RngAdvance(rng, w),
            crit |-> IF critStage = 1 THEN roll * 8 < 100 ELSE roll * 2 < 100]

\* The draws return [w, ...]: the work record after the draws and the result.
rollCritical(state, w, ctx, rng) ==
  LET move == Call("MoveDef", <<ctx.move>>)
      target == getActiveCreature(state, ctx.targetPlayerId)
      critStage == onModifyCritChance(state, ctx.attackerPlayerId, move.critRate, target)
      roll == RngValue(rng, w)
  IN  IF ctx.parentalBondHit \/ critStage <= 0 THEN [w |-> w, crit |-> FALSE]
      ELSE [w |-> RngAdvance(rng, w),
            crit |-> CASE critStage = 1 -> roll * 8 < 100
                       [] critStage = 2 -> roll * 2 < 100
                       [] OTHER -> TRUE]

modifyMovePower(basePower, state, ctx) ==
  LET move == Call("MoveDef", <<ctx.move>>)
      category == getMoveCategory(move)
  IN  onDefensivePower(state, ctx.targetPlayerId,
        onModifyPower(state, ctx.attackerPlayerId, basePower, move, category), move)

resolveOffenseDefense(state, attacker, target, category, ctx, isCritical) ==
  LET special == category = "special"
      atkStage0 == IF target.ability = "unaware" THEN 0
                   ELSE attacker.stages[IF special THEN "spa" ELSE "atk"]
      defStage0 == IF attacker.ability = "unaware" THEN 0
                   ELSE target.stages[IF special THEN "spd" ELSE "def"]
      atkStage == IF isCritical THEN Max(0, atkStage0) ELSE atkStage0
      defStage == IF isCritical THEN Min(0, defStage0) ELSE defStage0
      atk0 == RMul(<<IF special THEN attacker.spAttack ELSE attacker.attack, 1>>,
                   stageMultiplier(atkStage))
      def0 == RMul(<<IF special THEN target.spDefense ELSE target.defense, 1>>,
                   stageMultiplier(defStage))
      def1 == IF RLeq(def0, <<1, 1>>) THEN <<1, 1>> ELSE def0
  IN  [atk |-> onModifyOffense(state, ctx.attackerPlayerId, atk0, category, ctx.turn),
       def |-> onModifyDefense(state, ctx.targetPlayerId, def1, category)]

\* roll = 0.85 + 0.15 * rng(), with rng() = v / 100
damageRoll(v) == Rat(8500 + 15 * v, 10000)

calcDamage(power, state, w, ctx, rng) ==
  LET attacker == getActiveCreature(state, ctx.attackerPlayerId)
      target == getActiveCreature(state, ctx.targetPlayerId)
      move == Call("MoveDef", <<ctx.move>>)
      category == getMoveCategory(move)
      movePower == modifyMovePower(power, state, ctx)
      rc == Call("rollCritical", <<state, w, ctx, rng>>)
      stab == IF move.type # undef /\ SeqHas(attacker.types, move.type)
                THEN <<3, 2>> ELSE <<1, 1>>
      typeEffectiveness == getTypeEffectiveness(move.type, target.types)
      od == Call("resolveOffenseDefense", <<state, attacker, target, category, ctx, rc.crit>>)
      levelTerm == Rat(attacker.level * 2 + 10, 5)
      ratio == RProd(<<levelTerm, movePower, od.atk, <<od.def[2], od.def[1]>>>>)
      base == RAdd(RMul(ratio, <<1, 50>>), <<2, 1>>)
      roll == damageRoll(RngValue(rng, rc.w))
      raw == RProd(<<base, roll, IF rc.crit THEN <<3, 2>> ELSE <<1, 1>>, stab,
                     typeEffectiveness>>)
  IN  IF typeEffectiveness[1] = 0 THEN [w |-> rc.w, amount |-> 0]
      ELSE [w |-> RngAdvance(rng, rc.w), amount |-> Max(1, RFloor(raw))]

(***************************************************************************)
(* Items (effects: hasItem, getItemId, setItemStatus, clearItemStatus)     *)
(***************************************************************************)
isItemStatus(statusId) == statusId \in {"item", "berry"}
hasItem(c) == c.item # undef \/ HasStatus(c, "item") \/ HasStatus(c, "berry")
getItemId(c) ==
  IF c.item # undef THEN c.item
  ELSE LET hits == {i \in 1..Len(c.statuses) : isItemStatus(c.statuses[i].id)}
           st == c.statuses[CHOOSE i \in hits : \A j \in hits : i <= j]
       IN  IF hits = {} THEN undef
           ELSE IF st.data.itemId # undef THEN st.data.itemId ELSE st.id
setItemStatus(c, itemId) ==
  LET hits == {i \in 1..Len(c.statuses) : isItemStatus(c.statuses[i].id)}
      entry == Status("item", null, [NoData EXCEPT !.itemId = itemId])
  IN  [c EXCEPT !.item = itemId,
                !.statuses = IF hits = {} THEN Append(@, entry)
                             ELSE [@ EXCEPT ![CHOOSE i \in hits : \A j \in hits : i <= j] = entry]]
clearItemStatus(c) ==
  [c EXCEPT !.item = undef,
            !.statuses = SelectSeq(@, LAMBDA st : ~isItemStatus(st.id))]

(***************************************************************************)
(* The effect compiler (applyEffect / applyEffects, engine/core/factory.js)*)
(* An effect context is [attackerPlayerId, targetPlayerId, move, turn,     *)
(* rng, parentalBondHit]; the result is [w, ev]: the work record after the *)
(* direct writes and RNG draws, and the events built.                      *)
(***************************************************************************)
Ctx(attackerId, targetId, moveId, turn, rng) ==
  [attackerPlayerId |-> attackerId, targetPlayerId |-> targetId, move |-> moveId,
   turn |-> turn, rng |-> rng, parentalBondHit |-> FALSE]
MetaOf(ctx) == [NoMeta EXCEPT !.moveId = ctx.move, !.source = ctx.attackerPlayerId]
DamageMeta(ctx, targetId) ==
  [MetaOf(ctx) EXCEPT !.target = targetId, !.cancellable = TRUE]

resolveTarget(target, ctx) ==
  IF target = "self" THEN ctx.attackerPlayerId ELSE ctx.targetPlayerId

fieldHasAnyStatus(state, ids) ==
  \E i \in 1..Len(state.field.global) : state.field.global[i].id \in ids

evaluateCondition(state, cond, ctx) ==
  LET target == getActiveCreature(state, ctx.targetPlayerId)
      attacker == getActiveCreature(state, ctx.attackerPlayerId)
  IN  CASE cond.type = "target_has_status" ->
             (isItemStatus(cond.statusId) /\ hasItem(target)) \/ HasStatus(target, cond.statusId)
        [] cond.type = "target_hp_lt" ->
             target.hp * cond.value[2] < cond.value[1] * target.maxHp
        [] cond.type = "field_has_status" -> fieldHasAnyStatus(state, {cond.statusId})
        [] cond.type = "weather_is_sunny" ->
             fieldHasAnyStatus(state, {"sunny_weather", "sunny_day", "sun"})
        [] cond.type = "weather_is_raining" ->
             fieldHasAnyStatus(state, {"rain", "rainy_weather", "rain_dance"})
        [] cond.type = "weather_is_hail" -> fieldHasAnyStatus(state, {"hail", "hail_weather", "snow"})
        [] cond.type = "weather_is_sandstorm" ->
             fieldHasAnyStatus(state, {"sandstorm", "sandstorm_weather"})
        [] cond.type = "user_type" -> SeqHas(attacker.types, cond.typeId)
        [] cond.type = "user_has_status" -> HasStatus(attacker, cond.statusId)
        [] cond.type = "target_has_item" -> hasItem(target)
        [] cond.type = "user_has_item" -> hasItem(attacker)
        [] OTHER -> FALSE

Res(w, ev) == [w |-> w, ev |-> ev]

\* case "damage": accuracy roll, then calcDamage, then the parental_bond second hit.
\* The miss line reads ctx.move.name, which throws when the context has no move
\* (an effect re-run by handleDelayed / handleOverTime).
fxDamage(w, effect, ctx) ==
  LET state == w.st
      move == Call("MoveDef", <<ctx.move>>)
      attacker == getActiveCreature(state, ctx.attackerPlayerId)
      category == getMoveCategory(move)
      accuracy == onModifyAccuracy(state, ctx.attackerPlayerId,
                    Rat(IF effect.accuracy = null THEN 100 ELSE effect.accuracy, 100), category)
      hitRoll == RngValue(ctx.rng, w)
      w1 == RngAdvance(ctx.rng, w)
      missed == hitRoll * accuracy[2] > 100 * accuracy[1]
      d1 == Call("calcDamage", <<<<effect.power, 1>>, state, w1, ctx, ctx.rng>>)
      first == <<EvLogM(Msg("used " \o move.name, attacker.name), MetaOf(ctx)),
                 EvDamage(ctx.targetPlayerId, d1.amount, DamageMeta(ctx, ctx.targetPlayerId))>>
      d2 == Call("calcDamage", <<<<effect.power, 4>>, state, d1.w,
                       [ctx EXCEPT !.parentalBondHit = TRUE], ctx.rng>>)
  IN  IF missed
        THEN IF move.defined
               THEN Res(w1, <<EvLogM(Msg(move.name \o " missed", attacker.name), MetaOf(ctx))>>)
               ELSE Res([w1 EXCEPT !.thrown = TRUE], <<>>)
      ELSE IF attacker.ability = "parental_bond"
        THEN Res(d2.w, Append(first,
                 EvDamage(ctx.targetPlayerId, d2.amount,
                          [DamageMeta(ctx, ctx.targetPlayerId) EXCEPT !.parentalBond = TRUE])))
      ELSE Res(d1.w, first)

\* 2^n
RECURSIVE Pow2(_)
Pow2(n) == IF n = 0 THEN 1 ELSE 2 * Pow2(n - 1)

\* case "protect": the chance is halved per consecutive success counted in
\* volatileData.protectSuccessCount, which is written on the attacker in place
fxProtect(w, effect, ctx) ==
  LET pid == ctx.attackerPlayerId
      attacker == getActiveCreature(w.st, pid)
      successCount == attacker.volatileData.protectSuccessCount
      roll == RngValue(ctx.rng, w)
      w1 == RngAdvance(ctx.rng, w)
      Counted(n) == [w1 EXCEPT !.st = SetActive(w.st, pid,
                       [attacker EXCEPT !.volatileData.protectSuccessCount = n])]
  IN  IF roll * Pow2(successCount) > 100
        THEN Res(Counted(0), <<EvLog(Msg("protect failed", attacker.name))>>)
        ELSE Res(Counted(successCount + 1),
                 <<EvApplyStatus(pid, "protect", 1, FALSE, NoData, MetaOf(ctx))>>)

fxApplyStatus(w, effect, ctx) ==
  LET state == w.st
      targetId == resolveTarget(effect.target, ctx)
      target == getActiveCreature(state, targetId)
      attacker == getActiveCreature(state, ctx.attackerPlayerId)
      itemId == IF effect.data.itemId # undef THEN effect.data.itemId ELSE effect.statusId
      hasChance == effect.chance # null
      w1 == IF hasChance THEN RngAdvance(ctx.rng, w) ELSE w
      passes == ~hasChance \/ RngValue(ctx.rng, w) <= effect.chance
      ranged == effect.durationMax # null
      range == effect.durationMax - effect.duration + 1
      duration == IF ranged
                    THEN effect.duration + ((RngValue(ctx.rng, w1) * range) \div 100)
                    ELSE effect.duration
      w2 == IF ranged THEN RngAdvance(ctx.rng, w1) ELSE w1
      data == IF effect.data.sourceId = "self"
                THEN [effect.data EXCEPT !.sourceId = ctx.attackerPlayerId]
                ELSE effect.data
  IN  IF isItemStatus(effect.statusId)
        THEN Res([w EXCEPT !.st = SetActive(state, targetId, setItemStatus(target, itemId))],
                 <<EvLogM(Line("gave " \o itemId, attacker.name, 0, 0, 0), MetaOf(ctx))>>)
      ELSE IF ~passes
        THEN Res(w1, <<EvLogM(Msg(effect.statusId \o " failed to apply", attacker.name),
                              MetaOf(ctx))>>)
      ELSE Res(w2, <<EvApplyStatus(targetId, effect.statusId, duration, effect.stack,
                                   data, MetaOf(ctx))>>)

fxDamageRatio(w, effect, ctx) ==
  LET targetId == resolveTarget(effect.target, ctx)
      target == getActiveCreature(w.st, targetId)
      amount == Max(1, RFloor(RMul(<<target.maxHp, 1>>, effect.ratioMaxHp)))
  IN  Res(w, <<EvDamage(targetId, amount, DamageMeta(ctx, targetId))>>)

\* (a status that lasts afterTurns turns only)
fxDelayShort(w, effect, ctx) ==
  LET targetId == resolveTarget(effect.target, ctx)
  IN  Res(w, <<EvApplyStatus(targetId, "delayed_effect", effect.afterTurns, FALSE,
                 [NoData EXCEPT !.triggerTurn = ctx.turn + effect.afterTurns,
                                !.effects = effect.effects,
                                !.sourceId = ctx.attackerPlayerId,
                                !.targetId = targetId,
                                !.timing = IF effect.timing = undef THEN "turn_end"
                                           ELSE effect.timing],
                 MetaOf(ctx))>>)

fxDelay(w, effect, ctx) ==
  LET targetId == resolveTarget(effect.target, ctx)
  IN  Res(w, <<EvApplyStatus(targetId, "delayed_effect", effect.afterTurns + 1, FALSE,
                 [NoData EXCEPT !.triggerTurn = ctx.turn + effect.afterTurns,
                                !.effects = effect.effects,
                                !.sourceId = ctx.attackerPlayerId,
                                !.targetId = targetId,
                                !.timing = IF effect.timing = undef THEN "turn_end"
                                           ELSE effect.timing],
                 MetaOf(ctx))>>)

fxOverTime(w, effect, ctx) ==
  LET targetId == resolveTarget(effect.target, ctx)
  IN  Res(w, <<EvApplyStatus(targetId, "over_time_effect", effect.duration, FALSE,
                 [NoData EXCEPT !.effects = effect.effects,
                                !.timing = IF effect.timing = undef THEN "turn_end"
                                           ELSE effect.timing,
                                !.sourceId = ctx.attackerPlayerId,
                                !.targetId = targetId],
                 MetaOf(ctx))>>)

RECURSIVE applyEffect(_, _, _)
RECURSIVE applyEffects(_, _, _)

\* runAbilityCheckHook(.., "onSkillLink", {}): skill_link answers true
onSkillLink(state, pid) == AbilityOf(state, pid) = "skill_link"

\* (the count drawn although the attacker has Skill Link)
repeatTimesDrawn(state, effect, ctx, roll) ==
  effect.times + ((roll * (effect.timesMax - effect.times + 1)) \div 100)

\* The repeat count of a { min, max } range: max under Skill Link, else
\* min + Math.floor(ctx.rng() * range)
repeatTimes(state, effect, ctx, roll) ==
  IF onSkillLink(state, ctx.attackerPlayerId) THEN effect.timesMax
  ELSE effect.times + ((roll * (effect.timesMax - effect.times + 1)) \div 100)

\* for (i = 0; i < times; i += 1) collected = collected.concat(applyEffects(..))
RECURSIVE repeatEffects(_, _, _, _)
repeatEffects(w, effects, ctx, times) ==
  IF times <= 0 THEN Res(w, <<>>)
  ELSE LET r1 == Call("applyEffects", <<w, effects, ctx>>)
           r2 == repeatEffects(r1.w, effects, ctx, times - 1)
       IN  Res(r2.w, r1.ev \o r2.ev)

\* case "repeat": the count (one draw for a range, unless Skill Link), the inner
\* effects that many times, and the "Hit N time(s)!" line when N > 1
fxRepeat(w, effect, ctx) ==
  LET ranged == effect.timesMax # null
      drawn == ranged /\ ~onSkillLink(w.st, ctx.attackerPlayerId)
      times == IF ranged THEN repeatTimes(w.st, effect, ctx, RngValue(ctx.rng, w))
               ELSE effect.times
      w1 == IF drawn THEN RngAdvance(ctx.rng, w) ELSE w
      r == repeatEffects(w1, effect.effects, ctx, times)
  IN  IF times > 1
        THEN Res(r.w, Append(r.ev, EvLog(Line("Hit time(s)", undef, times, 0, 0))))
        ELSE r

applyEffect(w, effect, ctx) ==
  LET targetId == resolveTarget(effect.target, ctx)
      t == effect.type
  IN  IF w.thrown THEN Res(w, <<>>)
      ELSE CASE t = "protect" -> fxProtect(w, effect, ctx)
        [] t = "damage" -> fxDamage(w, effect, ctx)
        [] t = "apply_status" -> fxApplyStatus(w, effect, ctx)
        [] t = "apply_field_status" ->
             Res(w, <<EvApplyField(effect.statusId, effect.duration, effect.stack,
                                   effect.data, MetaOf(ctx))>>)
        [] t = "remove_status" /\ ~isItemStatus(effect.statusId) ->
             Res(w, <<EvRemoveStatus(targetId, effect.statusId, MetaOf(ctx))>>)
        [] t = "remove_field_status" ->
             Res(w, <<[NoEvent EXCEPT !.type = "remove_field_status",
                                      !.statusId = effect.statusId, !.meta = MetaOf(ctx)]>>)
        [] t = "log" ->
             Res(w, IF effect.message # undef
                      THEN <<EvLogM(Msg(effect.message, undef), MetaOf(ctx))>> ELSE <<>>)
        [] t = "cure_all_status" ->
             Res(w, <<[NoEvent EXCEPT !.type = "cure_all_status", !.targetId = targetId,
                                      !.meta = MetaOf(ctx)]>>)
        [] t = "modify_stage" ->
             Res(w, <<EvModifyStage(targetId, effect.stages, effect.clamp,
                                    effect.fail_if_no_change, effect.show_event,
                                    MetaOf(ctx))>>)
        [] t = "chance" ->
             LET w1 == RngAdvance(ctx.rng, w) IN
             IF RngValue(ctx.rng, w) <= effect.p
               THEN Call("applyEffects", <<w1, effect.then, ctx>>)
               ELSE Call("applyEffects", <<w1, effect.else, ctx>>)
        [] t = "conditional" ->
             IF evaluateCondition(w.st, effect.if, ctx)
               THEN Call("applyEffects", <<w, effect.then, ctx>>)
               ELSE Call("applyEffects", <<w, effect.else, ctx>>)
        [] t = "damage_ratio" -> fxDamageRatio(w, effect, ctx)
        [] t = "repeat" -> fxRepeat(w, effect, ctx)
        [] t = "delay" -> fxDelay(w, effect, ctx)
        [] t = "over_time" -> fxOverTime(w, effect, ctx)
        [] t = "self_switch" ->
             Res(w, <<[NoEvent EXCEPT !.type = "self_switch",
                                      !.targetId = ctx.attackerPlayerId]>>)
        [] t = "force_switch" ->
             Res(w, <<[NoEvent EXCEPT !.type = "force_switch", !.targetId = targetId]>>)
        [] OTHER -> Res(w, <<>>)

\* applyEffects with returnEvents = true: the concatenated events of the list
applyEffects(w, effects, ctx) ==
  IF effects = <<>> THEN Res(w, <<>>)
  ELSE LET r1 == Call("applyEffect", <<w, Head(effects), ctx>>)
           r2 == applyEffects(r1.w, Tail(effects), ctx)
       IN  Res(r2.w, r1.ev \o r2.ev)

\* applyEffects with returnEvents = false: build the events, then apply them
applyEffectsToState(w, effects, ctx) ==
  LET r == Call("applyEffects", <<w, effects, ctx>>) IN Call("applyEventsW", <<r.w, r.ev>>)

(***************************************************************************)
(* Status registry and hook runners (statuses, engine-legacy/ai_cli.js)    *)
(* A hook result is [w, events, preventAction, overrideMove, transforms].  *)
(***************************************************************************)
HR(w, events) ==
  [w |-> w, events |-> events, preventAction |-> FALSE, overrideMove |-> undef,
   transforms |-> <<>>]
Prevent(w, events) == [HR(w, events) EXCEPT !.preventAction = TRUE]
Override(w, moveId, events) == [HR(w, events) EXCEPT !.overrideMove = moveId]

\* The rng a status or ability hook is handed in its context (rng: rngRecorder).
HookRngMissing(rng) == [kind |-> "absent", vals |-> <<>>, mr |-> rng.mr]
HookRng(rng) == rng

matchesTiming(hook, timing) ==
  IF timing = "turn_start" THEN hook = "onTurnStart"
  ELSE IF timing = "turn_end" THEN hook = "onTurnEnd"
  ELSE TRUE

FromMeta(from) == [NoMeta EXCEPT !.from = from]
RatioDamage(maxHp, d) == Max(1, maxHp \div d)

\* handleDelayed: once state.turn has reached triggerTurn, every hook that matches
\* the timing re-runs the effect list with rng ?? Math.random and applies it.
handleDelayed(w, pid, status, hook, rng) ==
  LET data == status.data
      timing == IF data.timing = undef THEN "turn_end" ELSE data.timing
      targetId == IF data.targetId = undef THEN pid ELSE data.targetId
      attackerId == IF data.sourceId = undef THEN pid ELSE data.sourceId
      ctx == Ctx(attackerId, targetId, undef, w.st.turn, rng)
  IN  IF ~matchesTiming(hook, timing) THEN HR(w, <<>>)
      ELSE IF data.triggerTurn = null \/ w.st.turn < data.triggerTurn THEN HR(w, <<>>)
      ELSE HR(Call("applyEffectsToState", <<w, data.effects, ctx>>), <<>>)

\* handleOverTime: the same without a trigger turn
handleOverTime(w, pid, status, hook, rng) ==
  LET data == status.data
      timing == IF data.timing = undef THEN "turn_end" ELSE data.timing
      targetId == IF data.targetId = undef THEN pid ELSE data.targetId
      attackerId == IF data.sourceId = undef THEN pid ELSE data.sourceId
      ctx == Ctx(attackerId, targetId, undef, w.st.turn, rng)
  IN  IF ~matchesTiming(hook, timing) THEN HR(w, <<>>)
      ELSE HR(Call("applyEffectsToState", <<w, data.effects, ctx>>), <<>>)

\* findLastMoveFromHistory: the latest recorded action of the player with a moveId
findLastMoveFromHistory(state, pid) ==
  LET turns == state.history
      hits == {<<i, j>> \in (1..Len(turns)) \X (1..2) :
                 /\ j <= Len(turns[i].actions)
                 /\ turns[i].actions[j].playerId = pid
                 /\ turns[i].actions[j].moveId # undef}
      last == CHOOSE h \in hits : \A g \in hits :
                g[1] < h[1] \/ (g[1] = h[1] /\ g[2] <= h[2])
  IN  IF hits = {} THEN undef ELSE turns[last[1]].actions[last[2]].moveId

\* registry[status.id].onTurnEnd / onTurnStart; active is the proxy's snapshot
statusTurnHook(w, pid, active, status, hook, rng) ==
  LET id == status.id
      sourceId == status.data.sourceId
      healer == IF sourceId \in PlayerIds THEN getActiveCreature(w.st, sourceId) ELSE active
  IN  CASE id = "burn" /\ hook = "onTurnEnd" ->
             HR(w, <<EvDamage(pid, RatioDamage(active.maxHp, 16), FromMeta("burn")),
                     EvLog(Msg("is hurt by its burn", active.name))>>)
        [] id = "poison" /\ hook = "onTurnEnd" ->
             HR(w, <<EvDamage(pid, RatioDamage(active.maxHp, 8), FromMeta("poison")),
                     EvLog(Msg("is hurt by poison", active.name))>>)
        [] id = "leech_seed" /\ hook = "onTurnEnd" ->
             IF sourceId \notin PlayerIds \/ healer.hp <= 0 THEN HR(w, <<>>)
             ELSE HR(w, <<EvLog(Msg("health is sapped by Leech Seed", active.name)),
                          EvDamage(pid, RatioDamage(active.maxHp, 8), FromMeta("leech_seed")),
                          EvDamage(sourceId, -RatioDamage(active.maxHp, 8),
                                   FromMeta("leech_seed_heal"))>>)
        [] id = "curse" /\ hook = "onTurnEnd" ->
             HR(w, <<EvLog(Msg("is afflicted by the curse", active.name)),
                     EvDamage(pid, RatioDamage(active.maxHp, 4), FromMeta("curse"))>>)
        [] id = "delayed_effect" -> handleDelayed(w, pid, status, hook, rng)
        [] id = "over_time_effect" /\ hook = "onTurnEnd" ->
             handleOverTime(w, pid, status, hook, rng)
        [] OTHER -> HR(w, <<>>)

\* registry[status.id].onBeforeAction; moveId is the action's current move id and
\* move the definition the resolver looked up before the hooks ran
statusBeforeAction(w, pid, active, status, moveId, move, rng) ==
  LET id == status.id
      data == status.data
      roll == RngValue(rng, w)
      w1 == RngAdvance(rng, w)
      lastMove == IF active.volatileData.lastMove # undef THEN active.volatileData.lastMove
                  ELSE findLastMoveFromHistory(w.st, pid)
  IN  CASE id = "paralysis" ->
             IF roll < 25 THEN Prevent(w1, <<EvLog(Msg("It is fully paralyzed", undef))>>)
             ELSE HR(w1, <<>>)
        [] id = "sleep" -> Prevent(w, <<EvLog(Msg("is fast asleep", active.name))>>)
        [] id = "freeze" ->
             IF roll < 20
               THEN HR(w1, <<EvRemoveStatus(pid, "freeze", NoMeta),
                             EvLog(Msg("thawed out", active.name))>>)
               ELSE Prevent(w1, <<EvLog(Msg("is frozen solid", active.name))>>)
        [] id = "confusion" ->
             IF roll < 33
               THEN Prevent(w1, <<EvLog(Msg("hurt itself in its confusion", active.name)),
                                  EvDamage(pid, Max(1, active.maxHp \div 10),
                                           FromMeta("confusion"))>>)
               ELSE HR(w1, <<>>)
        [] id = "flinch" -> Prevent(w, <<EvLog(Msg("It flinched", undef))>>)
        [] id = "lock_move" ->
             IF data.mode = "force_last_move" /\ lastMove # undef
               THEN Override(w, lastMove, <<EvLog(Msg("is locked into " \o lastMove, active.name))>>)
             ELSE IF data.mode = "force_specific" /\ data.moveId # undef
               THEN Override(w, data.moveId, <<EvLog(Msg("must use " \o data.moveId, active.name))>>)
             ELSE HR(w, <<>>)
        [] id = "disable_move" ->
             IF data.moveId # undef /\ moveId = data.moveId
               THEN Prevent(w, <<EvLog(Msg("cannot use " \o data.moveId, active.name))>>)
               ELSE HR(w, <<>>)
        [] id = "encore" ->
             IF data.moveId # undef /\ moveId # data.moveId
               THEN Override(w, data.moveId, <<EvLog(Msg("received an encore", active.name))>>)
               ELSE HR(w, <<>>)
        [] id = "taunt" ->
             IF move.category = "status"
               THEN Prevent(w, <<EvLog(Msg("can't use " \o move.name \o " after the taunt",
                                           active.name))>>)
               ELSE HR(w, <<>>)
        [] id = "charging_solar_beam" ->
             IF data.mode = "force_specific" /\ data.moveId # undef
               THEN Override(w, data.moveId, <<>>)
               ELSE HR(w, <<>>)
        [] OTHER -> HR(w, <<>>)

\* (a fold that forgets the handlers' overrides)
MergeHRWithoutOverride(acc, r) ==
  [w |-> r.w,
   events |-> acc.events \o r.events,
   preventAction |-> acc.preventAction \/ r.preventAction,
   overrideMove |-> undef,
   transforms |-> acc.transforms \o r.transforms]

\* One handler result folded into the accumulated result of runStatusHooks
MergeHR(acc, r) ==
  [w |-> r.w,
   events |-> acc.events \o r.events,
   preventAction |-> acc.preventAction \/ r.preventAction,
   overrideMove |-> IF r.overrideMove # undef THEN r.overrideMove ELSE acc.overrideMove,
   transforms |-> acc.transforms \o r.transforms]

RECURSIVE runStatusHooksFrom(_, _, _, _, _, _, _)
runStatusHooksFrom(acc, pid, active, statuses, hook, actx, rng) ==
  IF statuses = <<>> \/ acc.w.thrown THEN acc
  ELSE LET status == Head(statuses)
           r == IF hook = "onBeforeAction"
                  THEN statusBeforeAction(acc.w, pid, active, status, actx.moveId, actx.move, rng)
                  ELSE statusTurnHook(acc.w, pid, active, status, hook, rng)
       IN  runStatusHooksFrom(MergeHR(acc, r), pid, active, Tail(statuses), hook, actx, rng)

\* runStatusHooks: the handlers of the active creature's statuses, in list order,
\* over a copy of the list taken at entry
runStatusHooks(w, pid, hook, actx, rng) ==
  LET active == getActiveCreature(w.st, pid)
  IN  runStatusHooksFrom(HR(w, <<>>), pid, active, active.statuses, hook, actx, rng)

NoActx == [moveId |-> undef, move |-> NoMoveDef]

\* (the hooks of every player run first, the events are applied after)
statusPhaseBatch(w, pids, hook, rng) ==
  LET r1 == Call("runStatusHooks", <<w, pids[1], hook, NoActx, HookRng(rng)>>)
      r2 == Call("runStatusHooks", <<r1.w, pids[2], hook, NoActx, HookRng(rng)>>)
  IN  Call("applyEventsW", <<r2.w, r1.events \o r2.events>>)

\* Status hooks of one phase for both players: player 0, its events applied,
\* then player 1
RECURSIVE statusPhase(_, _, _, _)
statusPhase(w, pids, hook, rng) ==
  IF pids = <<>> \/ w.thrown THEN w
  ELSE LET r == Call("runStatusHooks", <<w, Head(pids), hook, NoActx, HookRng(rng)>>)
       IN  statusPhase(Call("applyEventsW", <<r.w, r.events>>), Tail(pids), hook, rng)

\* runFieldHooks looks the field effect's id up in the status registry; no weather
\* id has an entry there, so the field phases add nothing.
FieldHookIds == {}
runFieldHooks(w, hook) ==
  IF \E i \in 1..Len(w.st.field.global) : w.st.field.global[i].id \in FieldHookIds
    THEN [w EXCEPT !.thrown = TRUE] ELSE w

\* tickStatuses: only the active creature of each player is ticked
tickCreature(c) ==
  LET ticked == [i \in 1..Len(c.statuses) |->
                   IF c.statuses[i].remainingTurns # null
                     THEN [c.statuses[i] EXCEPT !.remainingTurns = @ - 1]
                     ELSE c.statuses[i]]
  IN  [c EXCEPT !.statuses =
         SelectSeq(ticked, LAMBDA st : st.remainingTurns = null \/ st.remainingTurns > 0)]
tickStatuses(state) ==
  [state EXCEPT !.players =
     [p \in PlayerIds |->
        IF SlotOk(state.players[p], state.players[p].activeSlot)
          THEN [state.players[p] EXCEPT
                  !.team[state.players[p].activeSlot + 1] = tickCreature(@)]
          ELSE state.players[p]]]

tickFieldEffects(state) ==
  LET g == state.field.global
      ticked == [i \in 1..Len(g) |->
                   IF g[i].remainingTurns # null
                     THEN [g[i] EXCEPT !.remainingTurns = @ - 1] ELSE g[i]]
  IN  [state EXCEPT !.field.global =
         SelectSeq(ticked, LAMBDA e : e.remainingTurns = null \/ e.remainingTurns > 0)]

(***************************************************************************)
(* Ability hooks that build events or rewrite the state                    *)
(***************************************************************************)
onImmunity(state, pid, type) ==
  AbilityOf(state, pid) \in {"own_tempo", "clear_body", "white_smoke", "hyper_cutter"}
    /\ type = "intimidate"

\* (an ability that traps nobody)
onTrapNobody(state, pid, targetId) == FALSE

\* shadow_tag.onTrap, asked of player pid about the switching player targetId
onTrap(state, pid, targetId) ==
  /\ AbilityOf(state, pid) = "shadow_tag"
  /\ targetId # pid
  /\ AbilityOf(state, targetId) # "shadow_tag"

\* runAbilityCheckHook(.., "onCheckItem", .., true): klutz and unnerve answer false
onCheckItem(state, pid) == AbilityOf(state, pid) \notin {"klutz", "unnerve"}

markAbilityUsed(state, pid, key) ==
  SetActive(state, pid,
            [getActiveCreature(state, pid) EXCEPT !.abilityData = @ \cup {key}])

\* setWeather: drops sun and rain only, then pushes the new weather
setWeather(state, id, turns) ==
  [state EXCEPT !.field.global =
     Append(SelectSeq(@, LAMBDA e : e.id \notin {"sun", "rain"}), Status(id, turns, NoData))]

BAN_COPY_ABILITIES ==
  {"receiver", "power_of_alchemy", "trace", "wonder_guard", "forecast", "flower_gift",
   "multitype", "illusion", "imposter", "stance_change", "power_construct", "schooling",
   "comatose", "shields_down", "disguise", "battle_bond", "rk_system", "ice_face",
   "gulp_missile", "hung_switch", "commander", "quark_drive", "protosynthesis"}

copyFaintedAbility(w, pid, abilityId) ==
  LET player == w.st.players[pid]
      last == player.lastFaintedAbility
      c == getActiveCreature(w.st, pid)
  IN  IF last = undef \/ last = abilityId \/ last \in BAN_COPY_ABILITIES
         \/ c.ability # abilityId
        THEN HR(w, <<>>)
        ELSE HR([w EXCEPT !.st = SetActive(w.st, pid,
                    [c EXCEPT !.ability = last,
                              !.abilityData = @ \cup {"copiedAbility:" \o last}])],
                <<EvLog(Msg("copied " \o last, c.name))>>)

abilitySwitchIn(w, pid) ==
  LET state == w.st
      active == getActiveCreature(state, pid)
      ab == active.ability
      foe == Other(pid)
      foeActive == getActiveCreature(state, foe)
      SelfMeta == [NoMeta EXCEPT !.source = pid]
  IN  CASE ab = "intimidate" ->
             IF "intimidateUsed" \in active.abilityData THEN HR(w, <<>>)
             ELSE LET next == markAbilityUsed(state, pid, "intimidateUsed") IN
                  HR([w EXCEPT !.st = next],
                     IF onImmunity(next, foe, "intimidate") THEN <<>>
                     ELSE <<EvModifyStage(foe, [atk |-> -1], TRUE, FALSE, TRUE, SelfMeta)>>)
        [] ab = "download" ->
             IF "downloadUsed" \in active.abilityData THEN HR(w, <<>>)
             ELSE HR([w EXCEPT !.st = markAbilityUsed(state, pid, "downloadUsed")],
                     <<EvModifyStage(pid,
                         IF foeActive.defense < foeActive.spDefense
                           THEN [atk |-> 1] ELSE [spa |-> 1],
                         TRUE, FALSE, TRUE, SelfMeta)>>)
        [] ab = "drought" ->
             IF "droughtUsed" \in active.abilityData THEN HR(w, <<>>)
             ELSE HR([w EXCEPT !.st =
                        PushLog(setWeather(markAbilityUsed(state, pid, "droughtUsed"), "sun", 5),
                                Msg("The sunlight turned harsh", undef))],
                     <<>>)
        [] ab \in {"receiver", "power_of_alchemy"} -> copyFaintedAbility(w, pid, ab)
        [] OTHER -> HR(w, <<>>)

\* libero.onBeforeAction
abilityBeforeAction(w, pid, moveId) ==
  LET active == getActiveCreature(w.st, pid)
      move == Call("MoveDef", <<moveId>>)
  IN  IF active.ability = "libero" /\ move.type # undef
         /\ "liberoUsed" \notin active.abilityData
        THEN HR([w EXCEPT !.st = SetActive(w.st, pid,
                    [active EXCEPT !.types = <<move.type>>,
                                   !.abilityData = @ \cup {"liberoUsed"}])],
                <<EvLog(Msg("transformed into " \o move.type, active.name))>>)
        ELSE HR(w, <<>>)

\* The stat a draw selects: stats[Math.floor(r * stats.length)]
MoodyStats == <<"atk", "def", "spa", "spd", "spe">>
MoodyStat(r) == MoodyStats[((r * Len(MoodyStats)) \div 100) + 1]

\* The draws a generator makes before it repeats itself for good: the values of a
\* cycle, or the recorded draws and then those of Math.random
RngPeriod(rng) == Len(rng.vals) + Len(rng.mr)

\* while (down === up) down = stats[...]: the loop draws until a draw selects
\* another stat than up; when a whole period of the generator selects up, every
\* later draw does, and the loop never exits
RECURSIVE moodyDown(_, _, _, _)
moodyDown(w, rng, up, drawn) ==
  LET down == MoodyStat(RngValue(rng, w))
      w1 == RngAdvance(rng, w)
  IN  IF down # up THEN [w |-> w1, down |-> down]
      ELSE IF drawn + 1 >= RngPeriod(rng)
        THEN [w |-> [w1 EXCEPT !.thrown = TRUE, !.hung = TRUE], down |-> down]
      ELSE moodyDown(w1, rng, up, drawn + 1)

\* moody.onTurnEnd
abilityTurnEnd(w, pid, rng) ==
  LET active == getActiveCreature(w.st, pid)
      up == MoodyStat(RngValue(rng, w))
      d == moodyDown(RngAdvance(rng, w), rng, up, 0)
      delta == [k \in {up, d.down} |-> IF k = up THEN 2 ELSE -1]
  IN  IF active.ability = "moody"
        THEN HR(d.w, IF d.w.hung THEN <<>>
                     ELSE <<EvModifyStage(pid, delta, TRUE, FALSE, TRUE,
                                          [NoMeta EXCEPT !.source = pid])>>)
        ELSE HR(w, <<>>)

\* runAbilityHooks by hook; no registry entry has onTurnStart
runAbilityHooks(w, pid, hook, moveId, rng) ==
  IF w.thrown THEN HR(w, <<>>)
  ELSE CASE hook = "onSwitchIn" -> abilitySwitchIn(w, pid)
         [] hook = "onBeforeAction" -> abilityBeforeAction(w, pid, moveId)
         [] hook = "onTurnEnd" -> abilityTurnEnd(w, pid, rng)
         [] OTHER -> HR(w, <<>>)

\* runAllAbilityHooks: every player's hook runs first, the events are applied after
runAllAbilityHooks(w, hook, rng) ==
  LET r1 == Call("runAbilityHooks", <<w, "p1", hook, undef, rng>>)
      r2 == Call("runAbilityHooks", <<r1.w, "p2", hook, undef, rng>>)
  IN  Call("applyEventsW", <<r2.w, r1.events \o r2.events>>)

isReflectableStatusEvent(type) ==
  type \in {"apply_status", "remove_status", "replace_status", "modify_stage",
             "clear_stages", "reset_stages", "disable_move", "cure_all_status"}

\* (a reflection that leaves the event's meta without the bounced flag)
onTryHitUnmarked(state, ev) ==
  LET pid == ev.targetId
      active == getActiveCreature(state, pid)
      sourceId == ev.meta.source
      move == Call("MoveDef", <<ev.meta.moveId>>)
  IN  IF active.ability = "magic_bounce" /\ isReflectableStatusEvent(ev.type)
         /\ sourceId # undef /\ sourceId # pid /\ ~ev.meta.bounced /\ isStatusMove(move)
        THEN <<EvLog(Msg("bounced the move back", active.name)),
               [ev EXCEPT !.targetId = sourceId, !.meta.source = pid]>>
      ELSE <<ev>>

\* ability.onTryHit of the target: the replacement list, or <<ev>> when it returns null
onTryHit(state, ev) ==
  LET pid == ev.targetId
      active == getActiveCreature(state, pid)
      ab == active.ability
      sourceId == ev.meta.source
      move == Call("MoveDef", <<ev.meta.moveId>>)
  IN  IF ab = "magic_bounce" /\ isReflectableStatusEvent(ev.type) /\ sourceId # undef
         /\ sourceId # pid /\ ~ev.meta.bounced /\ isStatusMove(move)
        THEN <<EvLog(Msg("bounced the move back", active.name)),
               [ev EXCEPT !.targetId = sourceId, !.meta.source = pid, !.meta.bounced = TRUE]>>
      ELSE IF ab = "lightning_rod" /\ ev.type = "damage" /\ move.type = "electric"
        THEN <<EvModifyStage(pid, [spa |-> 1], TRUE, FALSE, TRUE, [NoMeta EXCEPT !.source = pid]),
               EvLog(Msg("drew in the electricity", active.name))>>
      ELSE <<ev>>

onlyPositiveStages(stages) ==
  [k \in {j \in DOMAIN stages : stages[j] > 0} |-> stages[k]]

\* ability.onAfterEvent of player pid for one emitted event
onAfterEvent(state, pid, ev) ==
  LET active == getActiveCreature(state, pid)
      ab == active.ability
      SelfMeta == [NoMeta EXCEPT !.source = pid]
      StageEv(stages, meta) == EvModifyStage(pid, stages, TRUE, FALSE, TRUE, meta)
      hitSelf == ev.type = "damage" /\ ev.targetId = pid
  IN  CASE ab = "stamina" /\ hitSelf -> <<StageEv([def |-> 1], SelfMeta)>>
        [] ab = "cotton_down" /\ hitSelf ->
             <<EvModifyStage(Other(pid), [spe |-> -1], TRUE, FALSE, TRUE, SelfMeta)>>
        [] ab = "berserk" /\ hitSelf /\ 2 * active.hp > active.maxHp
             /\ 2 * (active.hp - ev.amount) <= active.maxHp ->
             <<StageEv([spa |-> 1], SelfMeta)>>
        [] ab = "competitive" /\ ev.type = "modify_stage" /\ ev.targetId = pid
             /\ ev.meta.source # undef /\ ev.meta.source # pid /\ ~ev.meta.competitive
             /\ (\E k \in DOMAIN ev.stages : ev.stages[k] < 0) ->
             <<StageEv([spa |-> 2], [SelfMeta EXCEPT !.competitive = TRUE])>>
        [] ab = "opportunist" /\ ev.type = "modify_stage" /\ ev.targetId # pid
             /\ ~ev.meta.opportunist /\ DOMAIN onlyPositiveStages(ev.stages) # {} ->
             <<StageEv(onlyPositiveStages(ev.stages), [SelfMeta EXCEPT !.opportunist = TRUE])>>
        [] OTHER -> <<>>

RECURSIVE withReactions(_, _)
withReactions(state, evs) ==
  IF evs = <<>> THEN <<>>
  ELSE <<Head(evs)>> \o onAfterEvent(state, "p1", Head(evs))
         \o onAfterEvent(state, "p2", Head(evs)) \o withReactions(state, Tail(evs))

\* applyAbilityEventModifiers: interceptor of the target, then every reactor
RECURSIVE applyAbilityEventModifiers(_, _)
applyAbilityEventModifiers(state, events) ==
  IF events = <<>> THEN <<>>
  ELSE LET ev == Head(events)
           current == IF ev.targetId \in PlayerIds THEN onTryHit(state, ev) ELSE <<ev>>
       IN  withReactions(state, current) \o applyAbilityEventModifiers(state, Tail(events))

\* protect.onEventTransform of player pid: one replace_event per protected event type
\* that some incoming event of another source has
protectTransforms(state, pid, events) ==
  LET active == getActiveCreature(state, pid)
      Foreign(t) == \E i \in 1..Len(events) :
                      /\ events[i].targetId = pid /\ events[i].type = t
                      /\ events[i].meta.source # pid
      Tr(t) == [type |-> "replace_event", from |-> t, targetId |-> pid,
                to |-> <<EvLog(Msg("protected itself", active.name))>>]
      \* in the order the first event of each type arrives
      firstAt(t) == CHOOSE i \in 1..Len(events) :
                      /\ events[i].targetId = pid /\ events[i].type = t
                      /\ events[i].meta.source # pid
                      /\ \A j \in 1..(i - 1) :
                            ~(events[j].targetId = pid /\ events[j].type = t
                              /\ events[j].meta.source # pid)
      types == {t \in {"damage", "apply_status", "modify_stage"} : Foreign(t)}
      RECURSIVE ordered(_)
      ordered(ts) == IF ts = {} THEN <<>>
                     ELSE LET t == CHOOSE x \in ts : \A y \in ts : firstAt(x) <= firstAt(y)
                          IN  <<Tr(t)>> \o ordered(ts \ {t})
  IN  IF HasStatus(active, "protect") THEN ordered(types) ELSE <<>>

\* collectEventTransforms: the status transforms of player 0, then of player 1
\* (one per protect entry the creature carries)
collectEventTransforms(state, events) ==
  protectTransforms(state, "p1", events) \o protectTransforms(state, "p2", events)

\* applyEventTransforms: the first replace_event whose type and target match an
\* event replaces it
RECURSIVE applyEventTransforms(_, _)
applyEventTransforms(events, transforms) ==
  IF events = <<>> THEN <<>>
  ELSE LET ev == Head(events)
           hits == {i \in 1..Len(transforms) :
                      transforms[i].from = ev.type /\ transforms[i].targetId = ev.targetId}
           rest == applyEventTransforms(Tail(events), transforms)
       IN  IF hits = {} THEN <<ev>> \o rest
           ELSE transforms[CHOOSE i \in hits : \A j \in hits : i <= j].to \o rest

(***************************************************************************)
(* The turn resolver stepBattle (core/battle), phase by phase.             *)
(* An action is [playerId, type, moveId, slot, targetId, priority]; an     *)
(* ordered action adds _priority, _speed, _rand, the index _src of the     *)
(* caller's action object it was made from and own, whether it is an       *)
(* object of its own (a spread copy) or the caller's object itself.        *)
(***************************************************************************)
NoAction == [playerId |-> undef, type |-> "move", moveId |-> undef, slot |-> null,
             targetId |-> undef, priority |-> null]
MoveAction(pid, moveId) == [NoAction EXCEPT !.playerId = pid, !.moveId = moveId]
SwitchAction(pid, slot) == [NoAction EXCEPT !.playerId = pid, !.type = "switch", !.slot = slot]
ItemAction(pid) == [NoAction EXCEPT !.playerId = pid, !.type = "use_item"]

ensureMovePp(c, moveId, moveDef) ==
  IF moveId \in DOMAIN c.movePp THEN c
  ELSE [c EXCEPT !.movePp = (moveId :> moveDef.pp) @@ @]
\* (a move can always be used)
hasMovePpAlways(c, moveId, moveDef) == TRUE

hasMovePp(c, moveId, moveDef) ==
  LET remaining == ensureMovePp(c, moveId, moveDef).movePp[moveId]
  IN  remaining = null \/ remaining > 0
consumeMovePp(c, moveId, moveDef) ==
  LET e == ensureMovePp(c, moveId, moveDef)
      remaining == e.movePp[moveId]
  IN  IF remaining = null \/ remaining <= 0 THEN e
      ELSE [e EXCEPT !.movePp[moveId] = remaining - 1]

isBattleOver(state) ==
  \E p \in PlayerIds :
    \A i \in 1..Len(state.players[p].team) : state.players[p].team[i].hp <= 0

getActionPriority(state, action, move) ==
  onModifyPriority(state, action.playerId,
                   IF action.priority # null THEN action.priority
                   ELSE IF move.priority # null THEN move.priority ELSE 0,
                   move)

\* [...actions].map(a => ({...a, _priority, _speed, _rand: rngRecorder()}))
spreadCopy(a, i) == [a |-> a, src |-> i, own |-> TRUE]

orderKeys(w, a, i, rng) ==
  LET c == spreadCopy(a, i)
      isSwitch == a.type = "switch"
  IN  [playerId |-> c.a.playerId, type |-> c.a.type, moveId |-> c.a.moveId,
       slot |-> c.a.slot, targetId |-> c.a.targetId, priority |-> c.a.priority,
       _priority |-> IF isSwitch THEN 10000
                     ELSE getActionPriority(w.st, a, Call("MoveDef", <<a.moveId>>)),
       _speed |-> IF isSwitch THEN <<0, 1>> ELSE creatureSpeed(w.st, a.playerId),
       _rand |-> RngValue(rng, w),
       _src |-> c.src, own |-> c.own]

RECURSIVE mapActions(_, _, _, _)
mapActions(w, actions, i, rng) ==
  IF i > Len(actions) THEN [w |-> w, list |-> <<>>]
  ELSE LET k == orderKeys(w, actions[i], i, rng)
           r == mapActions(RngAdvance(rng, w), actions, i + 1, rng)
       IN  [w |-> r.w, list |-> <<k>> \o r.list]

\* The sort comparator is negative: a goes before b
compareSpeedFirst(a, b) ==
  IF b._speed # a._speed THEN b._speed[1] * a._speed[2] < a._speed[1] * b._speed[2]
  ELSE IF b._priority # a._priority THEN b._priority < a._priority
  ELSE a._rand < b._rand
compareActions(a, b) ==
  IF b._priority # a._priority THEN b._priority < a._priority
  ELSE IF b._speed # a._speed THEN b._speed[1] * a._speed[2] < a._speed[1] * b._speed[2]
  ELSE a._rand < b._rand

\* Array.prototype.sort is stable: an element goes before the first element it
\* strictly precedes and stays behind its equals
RECURSIVE insertAction(_, _)
insertAction(x, sorted) ==
  IF sorted = <<>> THEN <<x>>
  ELSE IF compareActions(x, Head(sorted)) THEN <<x>> \o sorted
  ELSE <<Head(sorted)>> \o insertAction(x, Tail(sorted))

RECURSIVE sortActions(_, _)
sortActions(list, sorted) ==
  IF list = <<>> THEN sorted ELSE sortActions(Tail(list), insertAction(Head(list), sorted))

\* structuredClone(state): a deep copy sharing nothing with the argument
sameObject(state) == [value |-> state, fresh |-> FALSE]
structuredClone(state) == [value |-> state, fresh |-> TRUE]

\* stepBattle up to the ordering: clone, turn + 1, the turn banner, the turn-start
\* hooks (ability, status, field), then the ordered copies of the actions
beginTurn(state, actions, rng) ==
  LET clone == structuredClone(state).value
      w0 == Work([clone EXCEPT !.turn = @ + 1])
      w1 == Call("ApplyW", <<w0, EvLog(Line("--- Turn", undef, w0.st.turn, 0, 0))>>)
      w2 == Call("runAllAbilityHooks", <<w1, "onTurnStart", rng>>)
      w3 == Call("statusPhase", <<w2, PlayerOrder, "onTurnStart", rng>>)
      w4 == runFieldHooks(w3, "onTurnStart")
      m == mapActions(w4, actions, 1, rng)
  IN  [w |-> m.w, ordered |-> sortActions(m.list, <<>>), logStart |-> Len(state.log),
       \* next.turn += 1 is the only write before applyEvent makes a copy of its own
       input |-> IF structuredClone(state).fresh THEN state
                 ELSE [state EXCEPT !.turn = @ + 1]]

ER(w, action, skip) == [w |-> w, action |-> action, skip |-> skip]
LogW(w, line) == Call("ApplyW", <<w, EvLog(line)>>)

\* The item ids of the model whose name includes "berry"
BerryItems == {"berry", "oran_berry", "sitrus_berry"}

\* if (action.type === "switch") { ... continue; }
execSwitch(w, action) ==
  LET pid == action.playerId
      active == getActiveCreature(w.st, pid)
      isGhost == SeqHas(active.types, "ghost")
      trapped == active.hp > 0 /\ ~isGhost /\ onTrap(w.st, Other(pid), pid)
      w1 == Call("ApplyW", <<w, EvSwitch(pid, action.slot)>>)
      r == Call("runAbilityHooks", <<w1, pid, "onSwitchIn", undef, undef>>)
  IN  IF trapped
        THEN ER(LogW(w, Msg("couldn't switch out", w.st.players[pid].name)), action, TRUE)
      ELSE IF w1.thrown THEN ER(w1, action, TRUE)
      ELSE ER(Call("applyEventsW", <<r.w, r.events>>), action, TRUE)

\* if (action.type === "use_item") { ... continue; }
execUseItem(w, action) ==
  LET pid == action.playerId
      name == w.st.players[pid].name
      active == getActiveCreature(w.st, pid)
      itemId == getItemId(active)
      cleared == clearItemStatus(active)
      used == IF itemId \in BerryItems
                THEN [cleared EXCEPT !.statuses = Append(@, Status("berry_consumed", null, NoData))]
                ELSE cleared
  IN  IF ~onCheckItem(w.st, pid) THEN ER(LogW(w, Msg("cannot use items", name)), action, TRUE)
      ELSE IF ~hasItem(active) THEN ER(LogW(w, Msg("has no item to use", name)), action, TRUE)
      ELSE ER(LogW([w EXCEPT !.st = SetActive(w.st, pid, used)],
                   Msg("used its " \o itemId, name)), action, TRUE)

\* One effect of the move: compile, ability modifiers, transforms, apply
\* (the inline random_move expansion finds no such event in the modelled moves)
resolveEffect(w, effect, ctx) ==
  LET r == Call("applyEffect", <<w, effect, ctx>>)
      abilityEvents == Call("applyAbilityEventModifiers", <<r.w.st, r.ev>>)
      finalEvents == applyEventTransforms(abilityEvents,
                       collectEventTransforms(r.w.st, abilityEvents))
      finalTransformed == applyEventTransforms(finalEvents,
                            collectEventTransforms(r.w.st, finalEvents))
  IN  IF r.w.thrown THEN r.w ELSE Call("applyEventsW", <<r.w, finalTransformed>>)

RECURSIVE resolveEffects(_, _, _, _, _, _)
resolveEffects(w, effects, attackerId, targetId, moveId, rng) ==
  IF effects = <<>> \/ w.thrown THEN w
  ELSE resolveEffects(
         resolveEffect(w, Head(effects), Ctx(attackerId, targetId, moveId, w.st.turn, rng)),
         Tail(effects), attackerId, targetId, moveId, rng)

\* The move path of the action loop
execMove(w, action, rng) ==
  LET pid == action.playerId
      active == getActiveCreature(w.st, pid)
      actionMove == Call("MoveDef", <<action.moveId>>)
      resetCounter == actionMove.defined
                        /\ ~\E i \in 1..Len(actionMove.effects) :
                              actionMove.effects[i].type = "protect"
      w1 == IF resetCounter
              THEN [w EXCEPT !.st = SetActive(w.st, pid,
                      [active EXCEPT !.volatileData.protectSuccessCount = 0])]
              ELSE w
      targetId == IF action.targetId # undef THEN action.targetId ELSE Other(pid)
      ab == Call("runAbilityHooks", <<w1, pid, "onBeforeAction", action.moveId, rng>>)
      w2 == Call("applyEventsW", <<ab.w, ab.events>>)
      before == Call("runStatusHooks", <<w2, pid, "onBeforeAction",
                               [moveId |-> action.moveId, move |-> actionMove], HookRng(rng)>>)
      w3 == Call("applyEventsW", <<before.w, before.events>>)
      action2 == IF before.overrideMove # undef
                   THEN [action EXCEPT !.moveId = before.overrideMove] ELSE action
      w4 == runFieldHooks(w3, "onBeforeAction")
      attackerFresh == getActiveCreature(w4.st, pid)
      move == Call("MoveDef", <<action2.moveId>>)
      spent == [consumeMovePp(attackerFresh, action2.moveId, move)
                  EXCEPT !.volatileData.lastMove = action2.moveId]
      w5 == [w4 EXCEPT !.st = SetActive(w4.st, pid, spent)]
  IN  IF active.hp <= 0
        THEN ER(LogW(w1, Msg("cannot act", pid)), action, TRUE)
      ELSE IF targetId \notin PlayerIds
        THEN ER(LogW(w1, Msg("No valid target", pid)), action, TRUE)
      ELSE IF before.preventAction \/ w3.thrown THEN ER(w3, action, TRUE)
      ELSE IF w4.thrown \/ attackerFresh.hp <= 0 THEN ER(w4, action2, TRUE)
      ELSE IF ~move.defined
        THEN ER(LogW(w4, Msg("Unknown move " \o action2.moveId, undef)), action2, TRUE)
      ELSE IF ~hasMovePp(attackerFresh, action2.moveId, move)
        THEN ER(LogW([w4 EXCEPT !.st = SetActive(w4.st, pid,
                        ensureMovePp(attackerFresh, action2.moveId, move))],
                     Msg("has no PP left for " \o move.name, attackerFresh.name)),
                action2, TRUE)
      ELSE ER(resolveEffects(w5, move.effects, pid, targetId, action2.moveId, rng),
              action2, FALSE)

\* One iteration of `for (const action of ordered)`
execAction(w, action, rng) ==
  LET plain == [playerId |-> action.playerId, type |-> action.type, moveId |-> action.moveId,
                slot |-> action.slot, targetId |-> action.targetId,
                priority |-> action.priority]
      r == CASE action.type = "switch" -> Call("execSwitch", <<w, plain>>)
             [] action.type = "use_item" -> Call("execUseItem", <<w, plain>>)
             [] OTHER -> Call("execMove", <<w, plain, rng>>)
  IN  [w |-> r.w, action |-> [action EXCEPT !.moveId = r.action.moveId], skip |-> r.skip]

\* Turn end: status hooks per player, ability hooks, field hooks, the two ticks,
\* then the history record of the turn
historyActions(ordered) ==
  [i \in 1..Len(ordered) |->
     [playerId |-> ordered[i].playerId, type |-> ordered[i].type,
      moveId |-> ordered[i].moveId, targetId |-> ordered[i].targetId,
      slot |-> ordered[i].slot, priority |-> ordered[i]._priority]]

\* (a record that replaces the history instead of extending it)
recordTurnAlone(st, entry) == [st EXCEPT !.history = <<entry>>, !.hasHistory = TRUE]

\* if (!next.history) next.history = { turns: [] }; next.history.turns.push(entry)
recordTurn(st, entry) == [st EXCEPT !.history = Append(@, entry), !.hasHistory = TRUE]

endTurn(w, ordered, logStart, rng, recordHistory) ==
  LET w1 == Call("statusPhase", <<w, PlayerOrder, "onTurnEnd", rng>>)
      w2 == Call("runAllAbilityHooks", <<w1, "onTurnEnd", rng>>)
      w3 == runFieldHooks(w2, "onTurnEnd")
      ticked == tickFieldEffects(tickStatuses(w3.st))
      turnLog == SubSeq(ticked.log, logStart + 1, Len(ticked.log))
      entry == [turn |-> ticked.turn, actions |-> historyActions(ordered),
                log |-> turnLog, rng |-> w3.rngLog]
  IN  IF w3.thrown THEN w3
      ELSE [w3 EXCEPT !.st =
              IF recordHistory THEN recordTurn(ticked, entry) ELSE ticked]

\* The action loop as a whole
RECURSIVE runActions(_, _, _, _)
runActions(w, ordered, i, rng) ==
  IF i > Len(ordered) \/ w.thrown THEN [w |-> w, ordered |-> ordered]
  ELSE LET r == Call("execAction", <<w, ordered[i], rng>>)
           o2 == [ordered EXCEPT ![i] = r.action]
       IN  IF r.w.thrown \/ (~r.skip /\ isBattleOver(r.w.st))
             THEN [w |-> r.w, ordered |-> o2]
             ELSE runActions(r.w, o2, i + 1, rng)

\* stepBattle(state, actions, rng, {recordHistory}) as one function: the state it
\* returns unless it throws, and the caller's state object after the call
stepBattle(state, actions, rng, recordHistory) ==
  LET b == Call("beginTurn", <<state, actions, rng>>)
      a == runActions(b.w, b.ordered, 1, rng)
      e == Call("endTurn", <<a.w, a.ordered, b.logStart, rng, recordHistory>>)
  IN  [state |-> e.st, thrown |-> e.thrown, hung |-> e.hung, input |-> b.input,
       draws |-> e.ri]

\* replayBattle (core/replay): every recorded turn is stepped again with the
\* recorded actions and a generator that reads the recorded draws and falls back
\* to Math.random; an exception of a step leaves replayBattle. underflow: some
\* turn called the generator more often than its record is long
RECURSIVE replayTurns(_, _, _, _)
replayTurns(st, turns, mr, underflow) ==
  IF turns = <<>> THEN [state |-> st, thrown |-> FALSE, hung |-> FALSE,
                        underflow |-> underflow]
  ELSE LET r == Call("stepBattle", <<st, Head(turns).actions,
                                      RngReplay(Head(turns).rng, mr), FALSE>>)
           u == underflow \/ r.draws > Len(Head(turns).rng)
       IN  IF r.thrown THEN [state |-> st, thrown |-> TRUE, hung |-> r.hung,
                             underflow |-> u]
           ELSE replayTurns(r.state, Tail(turns), mr, u)

replayBattle(initialState, history, mr) ==
  replayTurns(structuredClone(initialState).value, history, mr, FALSE)

(***************************************************************************)
(* The search policies (ai/minimax, ai/mcts, ai/eval, ai/simple)           *)
(***************************************************************************)
RSub(a, b) == RAdd(a, <<-b[1], b[2]>>)
RECURSIVE SumSeq(_)
SumSeq(q) == IF q = <<>> THEN <<0, 1>> ELSE RAdd(Head(q), SumSeq(Tail(q)))

\* calculatePlayerScore: per living creature its hp ratio * 100, 50 for being alive,
\* 10 per stage, -20 per primary status ailment
creatureScore(c) ==
  LET stageSum == SumSeq([i \in 1..7 |->
                    <<c.stages[<<"atk", "def", "spa", "spd", "spe", "acc", "eva">>[i]], 1>>])
      ailments == Cardinality({i \in 1..Len(c.statuses) :
                    c.statuses[i].id \in {"poison", "burn", "paralysis", "sleep", "freeze"}})
  IN  IF c.hp <= 0 THEN <<0, 1>>
      ELSE RAdd(Rat(c.hp * 100, c.maxHp),
                RAdd(<<50, 1>>, RAdd(RMul(stageSum, <<10, 1>>), <<-20 * ailments, 1>>)))
calculatePlayerScore(player) ==
  SumSeq([i \in 1..Len(player.team) |-> creatureScore(player.team[i])])

evaluateState(state, pid) ==
  LET player == state.players[pid]
      opponent == state.players[Other(pid)]
      playerAlive == \E i \in 1..Len(player.team) : player.team[i].hp > 0
      opponentAlive == \E i \in 1..Len(opponent.team) : opponent.team[i].hp > 0
  IN  IF ~playerAlive /\ opponentAlive THEN <<-10000, 1>>
      ELSE IF playerAlive /\ ~opponentAlive THEN <<10000, 1>>
      ELSE IF ~playerAlive /\ ~opponentAlive THEN <<-5000, 1>>
      ELSE RSub(calculatePlayerScore(player), calculatePlayerScore(opponent))

WaitAction(pid) == [NoAction EXCEPT !.playerId = pid, !.type = "wait"]

\* (the moves with PP and the switches, whether or not the creature must switch)
getMovesAndSwitches(state, pid) ==
  LET player == state.players[pid]
      active == getActiveCreature(state, pid)
      slots == SelectSeq([i \in 1..Len(player.team) |-> i - 1],
                         LAMBDA k : player.team[k + 1].hp > 0 /\ k # player.activeSlot)
      usable == SelectSeq(active.moves,
                          LAMBDA m : ~(m \in DOMAIN active.movePp /\ active.movePp[m] = 0))
  IN  [i \in 1..Len(usable) |-> MoveAction(pid, usable[i])]
        \o [i \in 1..Len(slots) |-> SwitchAction(pid, slots[i])]

\* getAvailableActions: a creature that fainted or must switch may only switch (or
\* wait when fainted with nobody left); otherwise its moves with PP, then the switches
getAvailableActions(state, pid) ==
  LET player == state.players[pid]
      active == getActiveCreature(state, pid)
      slots == SelectSeq([i \in 1..Len(player.team) |-> i - 1],
                         LAMBDA k : player.team[k + 1].hp > 0 /\ k # player.activeSlot)
      availableSwitches == [i \in 1..Len(slots) |-> SwitchAction(pid, slots[i])]
      usable == SelectSeq(active.moves,
                          LAMBDA m : ~(m \in DOMAIN active.movePp /\ active.movePp[m] = 0))
      moveActions == [i \in 1..Len(usable) |-> MoveAction(pid, usable[i])]
      mustSwitch == active.hp <= 0 \/ HasStatus(active, "pending_switch")
  IN  IF mustSwitch /\ availableSwitches # <<>> THEN availableSwitches
      ELSE IF mustSwitch /\ active.hp <= 0 THEN <<WaitAction(pid)>>
      ELSE moveActions \o availableSwitches

\* () => 0.5
FixedRng == RngCycle(<<50>>, <<50>>)

RMaxOf(S) == CHOOSE x \in S : \A y \in S : RLeq(y, x)
RMinOf(S) == CHOOSE x \in S : \A y \in S : RLeq(x, y)

\* solve(currentState, currentDepth): the maximin value; an exception of a
\* stepBattle call leaves the search
RECURSIVE solve(_, _, _)
solve(st, pid, depth) ==
  LET myActs == Call("getAvailableActions", <<st, pid>>)
      opActs == Call("getAvailableActions", <<st, Other(pid)>>)
      sub == [i \in 1..Len(myActs) |-> [j \in 1..Len(opActs) |->
                LET r == Call("stepBattle", <<st, <<myActs[i], opActs[j]>>, FixedRng, FALSE>>)
                IN  IF r.thrown THEN [score |-> <<0, 1>>, thrown |-> TRUE, hung |-> r.hung]
                    ELSE solve(r.state, pid, depth - 1)]]
      minScore(i) == RMinOf({sub[i][j].score : j \in 1..Len(opActs)})
      left == {ij \in (1..Len(myActs)) \X (1..Len(opActs)) : sub[ij[1]][ij[2]].thrown}
      \* the first call of the two loops that does not return
      firstLeft == CHOOSE ij \in left :
                     \A kl \in left : ij[1] < kl[1] \/ (ij[1] = kl[1] /\ ij[2] <= kl[2])
  IN  IF depth = 0 \/ isBattleOver(st) \/ myActs = <<>> \/ opActs = <<>>
        THEN [score |-> evaluateState(st, pid), thrown |-> FALSE, hung |-> FALSE]
      ELSE IF left # {}
        THEN [score |-> <<0, 1>>, thrown |-> TRUE, hung |-> sub[firstLeft[1]][firstLeft[2]].hung]
      ELSE [score |-> RMaxOf({minScore(i) : i \in 1..Len(myActs)}), thrown |-> FALSE,
            hung |-> FALSE]

RECURSIVE Flatten(_)
Flatten(qq) == IF qq = <<>> THEN <<>> ELSE Head(qq) \o Flatten(Tail(qq))

\* The root loop of getBestMoveMinimax from its k-th stepBattle call on: the
\* caller's state object after the calls, the scores, and whether a call threw
RECURSIVE rootLoop(_, _, _, _, _, _)
rootLoop(input, calls, k, scores, pid, depth) ==
  IF k > Len(calls)
    THEN [input |-> input, scores |-> scores, thrown |-> FALSE, hung |-> FALSE]
  ELSE LET r == Call("stepBattle", <<input, calls[k], FixedRng, FALSE>>)
           v == Call("solve", <<r.state, pid, depth - 1>>)
       IN  IF r.thrown \/ v.thrown
             THEN [input |-> r.input, scores |-> scores, thrown |-> TRUE,
                   hung |-> IF r.thrown THEN r.hung ELSE v.hung]
             ELSE rootLoop(r.input, calls, k + 1, Append(scores, v.score), pid, depth)

\* What a policy returns when it has no action to return (undefined, null)
NoAdvice == [NoAction EXCEPT !.type = undef]

\* (the first available action, whatever the search finds)
getFirstAction(state, pid, depth) ==
  [action |-> IF Call("getAvailableActions", <<state, pid>>) = <<>> THEN NoAdvice
              ELSE Call("getAvailableActions", <<state, pid>>)[1],
   input |-> state, thrown |-> FALSE, hung |-> FALSE]

\* getBestMoveMinimax(state, playerId, depth): the first action whose worst case
\* over the opponent's actions is the best, and the caller's state after the search
getBestMoveMinimax(state, pid, depth) ==
  LET myActions == Call("getAvailableActions", <<state, pid>>)
      opActions == Call("getAvailableActions", <<state, Other(pid)>>)
      n == Len(opActions)
      calls == Flatten([i \in 1..Len(myActions) |->
                          [j \in 1..n |-> <<myActions[i], opActions[j]>>]])
      root == Call("rootLoop", <<state, calls, 1, <<>>, pid, depth>>)
      minScore(i) == RMinOf({root.scores[(i - 1) * n + j] : j \in 1..n})
      best == RMaxOf({minScore(i) : i \in 1..Len(myActions)})
      first == CHOOSE i \in 1..Len(myActions) :
                 /\ minScore(i) = best
                 /\ \A k \in 1..(i - 1) : minScore(k) # best
  IN  [action |-> IF root.thrown THEN NoAction
                  ELSE IF myActions = <<>> THEN NoAdvice
                  ELSE IF opActions = <<>> THEN myActions[1] ELSE myActions[first],
       input |-> root.input,
       thrown |-> root.thrown, hung |-> root.hung]

\* chooseHighestPower: the switch to the first living backup when the active
\* creature must be replaced, else the first move of the highest damage power
chooseHighestPower(state, pid) ==
  LET player == state.players[pid]
      active == getActiveCreature(state, pid)
      backups == {k \in 0..(Len(player.team) - 1) :
                    player.team[k + 1].hp > 0 /\ k # player.activeSlot}
      power(m) ==
        LET fx == Call("MoveDef", <<m>>).effects
            ps == {fx[i].power : i \in {j \in 1..Len(fx) : fx[j].type = "damage"}}
        IN  IF ps = {} THEN null ELSE CHOOSE x \in ps : \A y \in ps : y <= x
      known == {i \in 1..Len(active.moves) : Call("MoveDef", <<active.moves[i]>>).defined}
      \* bestPower starts at -Infinity (null) and only a greater power replaces it
      best == CHOOSE i \in known :
                /\ \A k \in known : power(active.moves[k]) <= power(active.moves[i])
                /\ \A k \in known : k < i => power(active.moves[k]) < power(active.moves[i])
      noneBetter == known = {} \/ \A k \in known : power(active.moves[k]) = null
      mustSwitch == active.hp <= 0 \/ HasStatus(active, "pending_switch")
  IN  IF mustSwitch /\ backups # {}
        THEN SwitchAction(pid, CHOOSE k \in backups : \A j \in backups : k <= j)
      ELSE IF mustSwitch /\ active.hp <= 0 THEN WaitAction(pid)
      ELSE [MoveAction(pid, IF noneBetter
                              THEN (IF active.moves = <<>> THEN undef ELSE active.moves[1])
                              ELSE active.moves[best])
              EXCEPT !.targetId = Other(pid)]

\* The simulations getBestMoveMCTS runs (50 unless the caller says otherwise)
Simulations == 4
simsPerAction(n) == Max(2, Simulations \div n)

\* The stepBattle calls getBestMoveMCTS makes on the caller's state: for every
\* candidate action, simsPerAction times, against chooseHighestPower's answer
mctsCalls(state, pid) ==
  LET myActions == Call("getAvailableActions", <<state, pid>>)
      per == simsPerAction(Len(myActions))
  IN  IF myActions = <<>> THEN <<>>
      ELSE
      [k \in 1..(Len(myActions) * per) |->
         <<myActions[((k - 1) \div per) + 1], Call("chooseHighestPower", <<state, Other(pid)>>)>>]

\* The caller's state object after the calls from the k-th on; an exception of a
\* call ends the search
RECURSIVE simulateFrom(_, _, _, _)
simulateFrom(input, calls, k, rng) ==
  IF k > Len(calls) THEN [input |-> input, thrown |-> FALSE, hung |-> FALSE]
  ELSE LET r == Call("stepBattle", <<input, calls[k], rng, FALSE>>)
       IN  IF r.thrown THEN [input |-> r.input, thrown |-> TRUE, hung |-> r.hung]
           ELSE simulateFrom(r.input, calls, k + 1, rng)

\* getBestMoveMCTS(state, playerId): the playouts that follow each call run on
\* the states stepBattle returned and draw from Math.random, so any candidate
\* may come out with the best average
getBestMoveMCTS(state, pid, mr) ==
  LET r == Call("simulateFrom", <<state, mctsCalls(state, pid), 1, RngMathRandom(mr)>>)
  IN  [candidates |-> Call("getAvailableActions", <<state, pid>>),
       input |-> r.input, thrown |-> r.thrown, hung |-> r.hung]

\* The functions Call applies; none of them is called without arguments
Call(fn, a) ==
  IF a = <<>> THEN a
  ELSE CASE fn = "stepBattle" -> stepBattle(a[1], a[2], a[3], a[4])
         [] fn = "beginTurn" -> beginTurn(a[1], a[2], a[3])
         [] fn = "execAction" -> execAction(a[1], a[2], a[3])
         [] fn = "endTurn" -> endTurn(a[1], a[2], a[3], a[4], a[5])
         [] fn = "runStatusHooks" -> runStatusHooks(a[1], a[2], a[3], a[4], a[5])
         [] fn = "statusPhase" -> statusPhase(a[1], a[2], a[3], a[4])
         [] fn = "applyEffects" -> applyEffects(a[1], a[2], a[3])
         [] fn = "applyEffect" -> applyEffect(a[1], a[2], a[3])
         [] fn = "applyEffectsToState" -> applyEffectsToState(a[1], a[2], a[3])
         [] fn = "calcDamage" -> calcDamage(a[1], a[2], a[3], a[4], a[5])
         [] fn = "runAllAbilityHooks" -> runAllAbilityHooks(a[1], a[2], a[3])
         [] fn = "runAbilityHooks" -> runAbilityHooks(a[1], a[2], a[3], a[4], a[5])
         [] fn = "applyEventsW" -> applyEventsW(a[1], a[2])
         [] fn = "ApplyW" -> ApplyW(a[1], a[2])
         [] fn = "chooseHighestPower" -> chooseHighestPower(a[1], a[2])
         [] fn = "execSwitch" -> execSwitch(a[1], a[2])
         [] fn = "execUseItem" -> execUseItem(a[1], a[2])
         [] fn = "execMove" -> execMove(a[1], a[2], a[3])
         [] fn = "MoveDef" -> MoveDef(a[1])
         [] fn = "getBestMoveMinimax" -> getBestMoveMinimax(a[1], a[2], a[3])
         [] fn = "getBestMoveMCTS" -> getBestMoveMCTS(a[1], a[2], a[3])
         [] fn = "replayBattle" -> replayBattle(a[1], a[2], a[3])
         [] fn = "solve" -> solve(a[1], a[2], a[3])
         [] fn = "rootLoop" -> rootLoop(a[1], a[2], a[3], a[4], a[5], a[6])
         [] fn = "simulateFrom" -> simulateFrom(a[1], a[2], a[3], a[4])
         [] fn = "getAvailableActions" -> getAvailableActions(a[1], a[2])
         [] fn = "applyAbilityEventModifiers" -> applyAbilityEventModifiers(a[1], a[2])
         [] fn = "rollCritical" -> rollCritical(a[1], a[2], a[3], a[4])
         [] fn = "resolveOffenseDefense" ->
              resolveOffenseDefense(a[1], a[2], a[3], a[4], a[5], a[6])

(***************************************************************************)
(* Battles.  A scenario fixes the two teams and the action lists the       *)
(* players may submit in a turn; creatures are built as the test suites    *)
(* build them (level 50, 100 max hp, 50 in every stat) with the hp, speed, *)
(* ability and item a test overrides.                                      *)
(***************************************************************************)
Hurt(c, hp) == [c EXCEPT !.hp = hp]
Afflicted(c, status) == [c EXCEPT !.statuses = Append(@, status)]

Teams ==
  [seed |->
     [p1 |-> <<createCreature("Seeder", <<"grass">>, <<"leech_seed", "tackle">>,
                              "none", undef, 100, 10)>>,
      p2 |-> <<createCreature("Host", <<"normal">>, <<"tackle", "future_strike">>,
                              "none", undef, 100, 12)>>],
   stages |->
     [p1 |-> <<createCreature("Simpleton", <<"normal">>, <<"raw_boost", "swords_dance_test">>,
                              "simple", undef, 100, 10)>>,
      p2 |-> <<createCreature("Contrarian", <<"normal">>, <<"growl_test", "swords_dance_test">>,
                              "contrary", undef, 100, 12)>>],
   switch |->
     [p1 |-> <<Hurt(createCreature("Lead", <<"normal">>, <<"tackle">>, "none", undef, 100, 10), 10),
               createCreature("Bench", <<"normal">>, <<"tackle">>, "none", undef, 100, 10)>>,
      p2 |-> <<createCreature("Foe", <<"normal">>, <<"tackle", "wait">>,
                              "none", undef, 100, 12)>>],
   weather |->
     [p1 |-> <<createCreature("Dancer", <<"water">>, <<"rain_dance">>, "none", undef, 100, 10),
               createCreature("Sunny", <<"fire">>, <<"tackle">>, "drought", undef, 100, 10)>>,
      p2 |-> <<createCreature("Snowman", <<"ice">>, <<"hail", "rain_dance">>,
                              "none", undef, 100, 12)>>],
   tie |->
     [p1 |-> <<createCreature("Prank", <<"normal">>, <<"prio_status", "tackle">>,
                              "prankster", "oran_berry", 100, 10)>>,
      p2 |-> <<createCreature("Twin", <<"normal">>, <<"quick_attack", "tackle">>,
                              "none", undef, 100, 10)>>],
   lock |->
     [p1 |-> <<createCreature("Caster", <<"normal">>, <<"tackle">>, "none", undef, 100, 10)>>,
      p2 |-> <<Afflicted(createCreature("Target", <<"fire">>, <<"ember_test", "tackle">>,
                                        "none", undef, 100, 12),
                         Status("lock_move", 3, [NoData EXCEPT !.mode = "force_last_move"]))>>],
   race |->
     [p1 |-> <<createCreature("Slow", <<"normal">>, <<"quick_attack", "tackle">>,
                              "none", "oran_berry", 100, 10)>>,
      p2 |-> <<createCreature("Fast", <<"normal">>, <<"prio_status", "tackle">>,
                              "none", undef, 100, 20)>>],
   moody |->
     [p1 |-> <<createCreature("Fickle", <<"normal">>, <<"tackle">>, "moody", undef, 100, 10)>>,
      p2 |-> <<createCreature("Steady", <<"normal">>, <<"wait">>, "none", undef, 100, 12)>>],
   frame |->
     [p1 |-> <<Afflicted(createCreature("Vet", <<"normal">>, <<"swords_dance_test">>,
                                        "none", undef, 100, 10),
                         Status("burn", null, NoData)),
               createCreature("Relief", <<"normal">>, <<"swords_dance_test">>,
                              "none", undef, 100, 10)>>,
      p2 |-> <<createCreature("Sower", <<"grass">>, <<"leech_seed">>, "none", undef, 100, 12)>>],
   doom |->
     [p1 |-> <<Hurt(createCreature("Frail", <<"normal">>, <<"wait">>, "none", undef, 100, 10), 5)>>,
      p2 |-> <<createCreature("Seer", <<"normal">>, <<"doom_desire", "tackle">>,
                              "none", undef, 100, 12)>>],
   guard |->
     [p1 |-> <<createCreature("Striker", <<"normal">>, <<"tackle">>, "none", undef, 100, 10)>>,
      p2 |-> <<Afflicted(createCreature("Warden", <<"normal">>, <<"protect", "tackle">>,
                                        "none", undef, 100, 12),
                         Status("lock_move", 3, [NoData EXCEPT !.mode = "force_last_move"]))>>],
   types |->
     [p1 |-> <<createCreature("Caster", <<"typeless">>, <<"steel_tap", "smog_test">>,
                              "none", undef, 100, 10)>>,
      p2 |-> <<createCreature("Plate", <<"water", "steel">>, <<"wait">>, "none", undef, 100, 12)>>],
   rod |->
     [p1 |-> <<createCreature("Caster", <<"typeless">>, <<"spark_test">>, "none", undef, 100, 10)>>,
      p2 |-> <<createCreature("Rod", <<"water">>, <<"wait">>, "lightning_rod", undef, 100, 12)>>],
   spear |->
     [p1 |-> <<createCreature("Linker", <<"water">>, <<"icicle_spear">>,
                              "skill_link", undef, 500, 10)>>,
      p2 |-> <<createCreature("Lancer", <<"water">>, <<"icicle_spear">>, "none", undef, 500, 12)>>],
   delay |->
     [p1 |-> <<createCreature("Seer", <<"normal">>, <<"late_start", "now_start">>,
                              "none", undef, 100, 10)>>,
      p2 |-> <<createCreature("Sage", <<"normal">>, <<"late_end", "now_end">>,
                              "none", undef, 100, 12)>>],
   overtime |->
     [p1 |-> <<createCreature("Hexer", <<"normal">>, <<"ot_start2", "wait">>,
                              "none", undef, 100, 10)>>,
      p2 |-> <<createCreature("Curser", <<"normal">>, <<"ot_end1", "ot_end2">>,
                              "none", undef, 100, 12)>>],
   trap |->
     [p1 |-> <<createCreature("Trapper", <<"normal">>, <<"tackle">>, "shadow_tag", undef, 100, 12)>>,
      p2 |-> <<Hurt(createCreature("Stuck", <<"normal">>, <<"wait">>, "none", undef, 100, 10), 5),
               createCreature("Bench", <<"normal">>, <<"wait">>, "none", undef, 100, 10)>>],
   ghost |->
     [p1 |-> <<createCreature("Trapper", <<"normal">>, <<"wait">>, "shadow_tag", undef, 100, 12)>>,
      p2 |-> <<createCreature("Spook", <<"ghost", "poison">>, <<"wait">>, "none", undef, 100, 10),
               createCreature("Shade", <<"dark">>, <<"wait">>, "shadow_tag", undef, 100, 10),
               createCreature("Bench", <<"normal">>, <<"wait">>, "none", undef, 100, 10)>>],
   mirror |->
     [p1 |-> <<createCreature("Caster", <<"normal">>, <<"poison_spore", "growl_test">>,
                              "magic_bounce", undef, 100, 10)>>,
      p2 |-> <<createCreature("Bouncer", <<"normal">>, <<"poison_spore", "tackle">>,
                              "magic_bounce", undef, 100, 12)>>],
   pivot |->
     [p1 |-> <<createCreature("Loner", <<"normal">>, <<"pivot_test", "one_shot">>,
                              "none", undef, 100, 10)>>,
      p2 |-> <<createCreature("Lead", <<"normal">>, <<"pivot_test", "one_shot">>,
                              "none", undef, 100, 12),
               createCreature("Relief", <<"normal">>, <<"wait">>, "none", undef, 100, 12)>>],
   fixed |->
     [p1 |-> <<createCreature("Cruel", <<"water">>, <<"icicle_spear", "slash_test">>,
                              "merciless", undef, 500, 10)>>,
      p2 |-> <<Afflicted(createCreature("Mark", <<"water">>, <<"slash_test", "lob_test">>,
                                        "none", undef, 500, 12),
                         Status("poison", null, NoData))>>],
   room |->
     [p1 |-> <<createCreature("Solo", <<"normal">>, <<"jab_shot">>, "none", undef, 100, 10)>>,
      p2 |-> <<Hurt(createCreature("Lead", <<"normal">>, <<"tackle", "one_shot">>,
                                   "none", "oran_berry", 100, 12), 5),
               createCreature("Relief", <<"normal">>, <<"tackle">>, "none", "charm", 100, 12)>>],
   faints |->
     [p1 |-> <<createCreature("Striker", <<"normal">>, <<"tackle">>, "none", undef, 100, 10)>>,
      p2 |-> <<Hurt(createCreature("First", <<"normal">>, <<"tackle">>, "none", undef, 100, 12), 5),
               Hurt(createCreature("Second", <<"normal">>, <<"tackle">>, "none", undef, 100, 12), 5),
               createCreature("Third", <<"normal">>, <<"tackle">>, "none", undef, 100, 12)>>],
   berry |->
     [p1 |-> <<createCreature("Eater", <<"normal">>, <<"tackle">>, "none", "oran_berry", 100, 10),
               createCreature("Spare", <<"normal">>, <<"tackle">>, "none", undef, 100, 10)>>,
      p2 |-> <<createCreature("Foe", <<"normal">>, <<"tackle">>, "none", undef, 100, 12)>>],
   ratio |->
     [p1 |-> <<Hurt(createCreature("Ratter", <<"normal">>, <<"super_fang", "mend_test">>,
                                   "none", undef, 100, 10), 40)>>,
      p2 |-> <<Hurt(createCreature("Dummy", <<"normal">>, <<"chip_test">>,
                                   "none", undef, 100, 12), 30)>>],
   phases |->
     [p1 |-> <<createCreature("Alpha", <<"normal">>, <<"late_start", "probe_ot">>,
                              "none", undef, 100, 10)>>,
      p2 |-> <<Hurt(createCreature("Beta", <<"grass">>, <<"leech_seed">>,
                                   "moody", undef, 100, 12), 45)>>],
   bench |->
     [p1 |-> <<createCreature("Luller", <<"normal">>, <<"lull_test">>, "none", undef, 100, 10)>>,
      p2 |-> <<createCreature("Dozer", <<"normal">>, <<"tackle">>, "none", undef, 100, 12),
               createCreature("Fresh", <<"normal">>, <<"tackle">>, "none", undef, 100, 12)>>],
   pp |->
     [p1 |-> <<createCreature("Spender", <<"normal">>, <<"jab_shot">>, "none", undef, 100, 10)>>,
      p2 |-> <<createCreature("Wall", <<"normal">>, <<"tackle">>, "none", undef, 300, 12)>>],
   shield |->
     [p1 |-> <<createCreature("Seer", <<"normal">>, <<"future_strike">>, "none", undef, 100, 10)>>,
      p2 |-> <<createCreature("Keeper", <<"normal">>, <<"tackle", "protect">>,
                              "none", undef, 300, 12)>>],
   refill |->
     [p1 |-> <<createCreature("Glutton", <<"normal">>, <<"tackle">>, "none", "oran_berry", 100, 10)>>,
      p2 |-> <<createCreature("Giver", <<"normal">>, <<"bestow_test">>, "none", undef, 100, 12)>>],
   draw |->
     [p1 |-> <<Afflicted(Hurt(createCreature("Ashen", <<"normal">>, <<"tackle">>,
                                             "none", undef, 100, 10), 5),
                         Status("poison", null, NoData))>>,
      p2 |-> <<Afflicted(Hurt(createCreature("Blight", <<"normal">>, <<"tackle">>,
                                             "none", undef, 100, 12), 5),
                         Status("poison", null, NoData))>>],
   muzzle |->
     [p1 |-> <<createCreature("Caster", <<"normal">>, <<"wait">>, "none", undef, 100, 10)>>,
      p2 |-> <<Afflicted(Afflicted(createCreature("Target", <<"fire">>, <<"ember_test", "tackle">>,
                                                  "none", undef, 100, 12),
                                   Status("disable_move", 4,
                                          [NoData EXCEPT !.moveId = "ember_test"])),
                         Status("encore", 3, [NoData EXCEPT !.moveId = "ember_test"]))>>]]

Scenarios == DOMAIN Teams

\* What each player may submit in a turn of the scenario
Menu ==
  [seed |-> [p1 |-> {MoveAction("p1", "leech_seed"), MoveAction("p1", "tackle")},
             p2 |-> {MoveAction("p2", "tackle"), MoveAction("p2", "future_strike")}],
   stages |-> [p1 |-> {MoveAction("p1", "raw_boost"), MoveAction("p1", "swords_dance_test")},
               p2 |-> {MoveAction("p2", "growl_test"), MoveAction("p2", "swords_dance_test")}],
   switch |-> [p1 |-> {MoveAction("p1", "tackle"), SwitchAction("p1", 0), SwitchAction("p1", 1),
                       SwitchAction("p1", 2), SwitchAction("p1", null)},
               p2 |-> {MoveAction("p2", "tackle"), MoveAction("p2", "wait")}],
   weather |-> [p1 |-> {MoveAction("p1", "rain_dance"), SwitchAction("p1", 1)},
                p2 |-> {MoveAction("p2", "hail"), MoveAction("p2", "rain_dance")}],
   tie |-> [p1 |-> {MoveAction("p1", "prio_status"), MoveAction("p1", "tackle"),
                    ItemAction("p1")},
            p2 |-> {MoveAction("p2", "quick_attack"), MoveAction("p2", "tackle")}],
   lock |-> [p1 |-> {MoveAction("p1", "tackle")},
             p2 |-> {MoveAction("p2", "ember_test"), MoveAction("p2", "tackle")}],
   race |-> [p1 |-> {MoveAction("p1", "quick_attack"), MoveAction("p1", "tackle"),
                     ItemAction("p1")},
             p2 |-> {MoveAction("p2", "prio_status"), MoveAction("p2", "tackle")}],
   moody |-> [p1 |-> {MoveAction("p1", "tackle")},
              p2 |-> {MoveAction("p2", "wait")}],
   frame |-> [p1 |-> {MoveAction("p1", "swords_dance_test"), SwitchAction("p1", 1)},
              p2 |-> {MoveAction("p2", "leech_seed")}],
   doom |-> [p1 |-> {MoveAction("p1", "wait")},
             p2 |-> {MoveAction("p2", "doom_desire"), MoveAction("p2", "tackle")}],
   guard |-> [p1 |-> {MoveAction("p1", "tackle")},
              p2 |-> {MoveAction("p2", "protect"), MoveAction("p2", "tackle")}],
   types |-> [p1 |-> {MoveAction("p1", "steel_tap"), MoveAction("p1", "smog_test")},
              p2 |-> {MoveAction("p2", "wait")}],
   rod |-> [p1 |-> {MoveAction("p1", "spark_test")}, p2 |-> {MoveAction("p2", "wait")}],
   spear |-> [p1 |-> {MoveAction("p1", "icicle_spear")},
              p2 |-> {MoveAction("p2", "icicle_spear")}],
   delay |-> [p1 |-> {MoveAction("p1", "late_start"), MoveAction("p1", "now_start")},
              p2 |-> {MoveAction("p2", "late_end"), MoveAction("p2", "now_end")}],
   overtime |-> [p1 |-> {MoveAction("p1", "ot_start2"), MoveAction("p1", "wait")},
                 p2 |-> {MoveAction("p2", "ot_end1"), MoveAction("p2", "ot_end2")}],
   trap |-> [p1 |-> {MoveAction("p1", "tackle")},
             p2 |-> {MoveAction("p2", "wait"), SwitchAction("p2", 0), SwitchAction("p2", 1)}],
   ghost |-> [p1 |-> {MoveAction("p1", "wait")},
              p2 |-> {SwitchAction("p2", 0), SwitchAction("p2", 1), SwitchAction("p2", 2)}],
   mirror |-> [p1 |-> {MoveAction("p1", "poison_spore"), MoveAction("p1", "growl_test")},
               p2 |-> {MoveAction("p2", "poison_spore"), MoveAction("p2", "tackle")}],
   pivot |-> [p1 |-> {MoveAction("p1", "pivot_test"), MoveAction("p1", "one_shot")},
              p2 |-> {MoveAction("p2", "pivot_test"), MoveAction("p2", "one_shot"),
                      SwitchAction("p2", 1)}],
   fixed |-> [p1 |-> {MoveAction("p1", "icicle_spear"), MoveAction("p1", "slash_test")},
              p2 |-> {MoveAction("p2", "slash_test"), MoveAction("p2", "lob_test")}],
   room |-> [p1 |-> {MoveAction("p1", "jab_shot")},
             p2 |-> {MoveAction("p2", "tackle"), SwitchAction("p2", 1), ItemAction("p2")}],
   faints |-> [p1 |-> {MoveAction("p1", "tackle")},
               p2 |-> {MoveAction("p2", "tackle"), SwitchAction("p2", 1)}],
   berry |-> [p1 |-> {ItemAction("p1"), SwitchAction("p1", 1), MoveAction("p1", "tackle")},
              p2 |-> {MoveAction("p2", "wait")}],
   ratio |-> [p1 |-> {MoveAction("p1", "super_fang"), MoveAction("p1", "mend_test")},
              p2 |-> {MoveAction("p2", "chip_test")}],
   phases |-> [p1 |-> {MoveAction("p1", "late_start"), MoveAction("p1", "probe_ot")},
               p2 |-> {MoveAction("p2", "leech_seed")}],
   bench |-> [p1 |-> {MoveAction("p1", "lull_test")},
              p2 |-> {MoveAction("p2", "tackle"), SwitchAction("p2", 1)}],
   pp |-> [p1 |-> {MoveAction("p1", "jab_shot")},
           p2 |-> {MoveAction("p2", "tackle")}],
   shield |-> [p1 |-> {MoveAction("p1", "future_strike")},
               p2 |-> {MoveAction("p2", "tackle"), MoveAction("p2", "protect")}],
   refill |-> [p1 |-> {ItemAction("p1")},
               p2 |-> {MoveAction("p2", "bestow_test")}],
   draw |-> [p1 |-> {MoveAction("p1", "tackle")},
             p2 |-> {MoveAction("p2", "tackle")}],
   muzzle |-> [p1 |-> {MoveAction("p1", "wait")},
               p2 |-> {MoveAction("p2", "ember_test"), MoveAction("p2", "tackle")}]]

\* The action lists of a turn: one action per player, player 0's first; the tie
\* scenario also submits them in the other order
ActionLists(s) ==
  {<<a, b>> : a \in Menu[s]["p1"], b \in Menu[s]["p2"]}
    \cup (IF s = "tie" THEN {<<b, a>> : a \in Menu[s]["p1"], b \in Menu[s]["p2"]} ELSE {})

\* The value sequences of the callers' generators (hundredths): the constant 0.5 of
\* the test suites and the search, and a generator that alternates
RngStreams == {<<50>>, <<90, 10>>}
\* What Math.random would return, were it called
MathRandom == <<25, 75>>

InitialState(s) == createBattleState(Teams[s]["p1"], Teams[s]["p2"])

(***************************************************************************)
(* The demo server's room (demo/tests/simulation.js)                       *)
(***************************************************************************)
\* The scenarios that are played in a room of the server
RoomScenarios == {"room", "faints", "draw"}

\* The sockets of the model: those of the two players the room admitted, and
\* one more client
Guest == "guest"
Clients == PlayerIds \cup {Guest}
\* battle_end { winner: null }
NoWinner == "null"

Emit(event, to, message) == [event |-> event, to |-> to, message |-> message]
NoEmit == Emit("none", undef, undef)
Verdict(ok, message) == [ok |-> ok, message |-> message]

\* needsSwitch / hasAvailableSwitch of the server
needsSwitch(player) ==
  LET active == IF SlotOk(player, player.activeSlot) THEN player.team[player.activeSlot + 1]
                ELSE NoCreature
  IN  active.hp <= 0 \/ HasStatus(active, "pending_switch")
hasAvailableSwitch(player) ==
  \E k \in 0..(Len(player.team) - 1) : k # player.activeSlot /\ player.team[k + 1].hp > 0

\* (every switch and every move is in order)
validateKind(state, playerId, action) ==
  IF action.type \in {"switch", "move", "use_item"} THEN Verdict(TRUE, undef)
  ELSE Verdict(FALSE, "invalid action")

validateAction(state, playerId, action) ==
  LET player == state.players[playerId]
      active == getActiveCreature(state, playerId)
      itemId == getItemId(active)
  IN  IF needsSwitch(player) /\ ~hasAvailableSwitch(player)
        THEN Verdict(FALSE, "no creature to switch to")
      ELSE IF needsSwitch(player) /\ action.type # "switch"
        THEN Verdict(FALSE, "a switch is required")
      ELSE IF action.type = "switch"
        THEN IF action.slot = null THEN Verdict(FALSE, "bad switch target")
             ELSE IF action.slot < 0 \/ action.slot >= Len(player.team)
               THEN Verdict(FALSE, "bad switch target")
             ELSE IF action.slot = player.activeSlot THEN Verdict(FALSE, "same creature")
             ELSE IF player.team[action.slot + 1].hp <= 0 THEN Verdict(FALSE, "fainted creature")
             ELSE Verdict(TRUE, undef)
      ELSE IF action.type = "move"
        THEN IF action.moveId = undef
                  \/ ~\E i \in 1..Len(active.moves) : active.moves[i] = action.moveId
               THEN Verdict(FALSE, "unusable move")
             ELSE IF /\ action.moveId \in DOMAIN active.movePp
                     /\ active.movePp[action.moveId] # null
                     /\ active.movePp[action.moveId] <= 0
               THEN Verdict(FALSE, "no PP")
             ELSE Verdict(TRUE, undef)
      ELSE IF action.type = "use_item"
        THEN IF itemId = undef THEN Verdict(FALSE, "no item")
             ELSE IF itemId \notin BerryItems THEN Verdict(FALSE, "unusable item")
             ELSE Verdict(TRUE, undef)
      ELSE Verdict(FALSE, "invalid action")

\* resolveNoSwitchDefeat: a player who must switch and cannot has lost
noSwitchDefeat(state) ==
  \E p \in PlayerIds : needsSwitch(state.players[p]) /\ ~hasAvailableSwitch(state.players[p])

\* battle_end { winner } to the players of the room, then delete rooms[roomId]
closed(r, winner) ==
  [r EXCEPT !.open = FALSE, !.resolving = FALSE,
            !.emitted = Emit("battle_end", undef, undef), !.winner = winner]

\* resolveNoSwitchDefeat: the loser is the first player who must switch and
\* cannot, the winner the other player
resolveNoSwitchDefeat(r, state) ==
  LET loser == IF needsSwitch(state.players["p1"]) /\ ~hasAvailableSwitch(state.players["p1"])
                 THEN "p1" ELSE "p2"
  IN  closed(r, Other(loser))

\* getWinner: the first player with a creature of hp > 0, else null
getWinner(state) ==
  LET Alive(p) == \E i \in 1..Len(state.players[p].team) : state.players[p].team[i].hp > 0
  IN  IF Alive("p1") THEN "p1" ELSE IF Alive("p2") THEN "p2" ELSE NoWinner

\* (the pending actions are kept)
afterTurnKeeping(r, nextState) ==
  IF noSwitchDefeat(nextState) THEN resolveNoSwitchDefeat(r, nextState)
  ELSE IF isBattleOver(nextState) THEN closed(r, getWinner(nextState))
  ELSE [r EXCEPT !.resolving = FALSE, !.emitted = Emit("battle_update", undef, undef)]

\* checkTurnResolution after stepBattle returned nextState
afterTurn(r, nextState) ==
  LET emptied == [r EXCEPT !.pendingActions = <<>>, !.resolving = FALSE]
  IN  IF noSwitchDefeat(nextState) THEN resolveNoSwitchDefeat(emptied, nextState)
      ELSE IF isBattleOver(nextState) THEN closed(emptied, getWinner(nextState))
      ELSE [emptied EXCEPT !.emitted = Emit("battle_update", undef, undef)]

\* handlePlayerExit: the winner is the first player of the room other than the
\* socket that leaves; battle_end goes to the players that are left and the room
\* is deleted
handlePlayerExit(r, leavingId) ==
  LET remaining == SelectSeq(PlayerOrder, LAMBDA p : p # leavingId)
  IN  closed([r EXCEPT !.knocked = FALSE], Head(remaining))

VARIABLES
  scn,       \* the scenario of the battle
  state,     \* the caller's battle state, the argument of the call in progress
  actions,   \* the caller's action array, the argument of the call in progress
  rng,       \* the caller's generator
  pc,        \* "idle", or where the call in progress stands ("looping": in a loop
             \* that never exits)
  next,      \* stepBattle's working copy with its draw counters and rngLog
  ordered,   \* stepBattle's ordered action copies
  cursor,    \* index in ordered of the action to execute
  logStart,  \* length of the log when the call began
  returned,  \* the state the last call returned
  outcome,   \* how the last call ended: "none", "returned" or "threw"
  again,     \* the result of a second execution (a rerun of the call or a replay),
             \* or the action a search advised
  room       \* the demo server's room around the battle: whether it exists, its
             \* pendingActions, the last message emitted, the last submission, the
             \* winner announced, the socket whose exit closed it

vars ==
  <<scn, state, actions, rng, pc, next, ordered, cursor, logStart, returned, outcome, again,
    room>>

Init ==
  /\ scn \in Scenarios
  /\ state = InitialState(scn)
  /\ actions = <<>>
  /\ rng = RngCycle(<<50>>, MathRandom)
  /\ pc = "idle"
  /\ next = Work(state)
  /\ ordered = <<>>
  /\ cursor = 0
  /\ logStart = 0
  /\ returned = state
  /\ outcome = "none"
  /\ again = [state |-> state, thrown |-> FALSE, advice |-> NoAction, underflow |-> FALSE,
              history |-> <<>>]
  /\ room = [open |-> scn \in RoomScenarios, pendingActions |-> <<>>, resolving |-> FALSE,
             emitted |-> NoEmit, last |-> NoAction, dropped |-> FALSE, knocked |-> FALSE,
             winner |-> undef, left |-> undef]

\* stepBattle(state, actions, rng) is called: the working copy is made, the turn
\* begins and the actions are ordered. (The state of a room is the server's: the
\* callers of this and of the replay and search actions below hold no room.)
BeginTurn ==
  /\ pc = "idle"
  /\ scn \notin RoomScenarios
  /\ state.turn < MaxTurn
  /\ ~isBattleOver(state)
  /\ \E acts \in ActionLists(scn), vals \in RngStreams :
       \E b \in {Call("beginTurn", <<state, acts, RngCycle(vals, MathRandom)>>)} :
           /\ actions' = acts
           /\ rng' = RngCycle(vals, MathRandom)
           /\ next' = b.w
           /\ ordered' = b.ordered
           /\ logStart' = b.logStart
           /\ cursor' = 1
           /\ pc' = IF b.w.thrown THEN "thrown"
                     ELSE IF b.ordered = <<>> THEN "ending" ELSE "acting"
           /\ state' = b.input
  /\ UNCHANGED <<scn, returned, outcome, again, room>>

\* One iteration of the action loop; break once the battle is over after a move
\* that ran to its end
ExecAction ==
  /\ pc = "acting"
  /\ \E r \in {Call("execAction", <<next, ordered[cursor], rng>>)} :
         /\ next' = r.w
         /\ ordered' = [ordered EXCEPT ![cursor] = r.action]
         /\ cursor' = cursor + 1
         /\ pc' = IF r.w.thrown THEN "thrown"
                   ELSE IF (~r.skip /\ isBattleOver(r.w.st)) \/ cursor = Len(ordered)
                     THEN "ending" ELSE "acting"
         \* Object.assign(action, override) writes to the ordered entry, which is the
         \* caller's object only if the entry is no copy of its own
         /\ actions' = IF ordered[cursor].own THEN actions
                        ELSE [actions EXCEPT ![ordered[cursor]._src].moveId = r.action.moveId]
  /\ UNCHANGED <<scn, state, rng, logStart, returned, outcome, again, room>>

\* Turn-end hooks, ticks and the history record; the call returns
EndTurn ==
  /\ pc = "ending"
  /\ \E w \in {Call("endTurn", <<next, ordered, logStart, rng, TRUE>>)} :
         /\ next' = w
         /\ pc' = IF w.hung THEN "looping" ELSE IF w.thrown THEN "thrown" ELSE "returned"
         /\ returned' = IF w.thrown THEN returned ELSE w.st
         /\ outcome' = IF w.thrown THEN outcome ELSE "returned"
  /\ UNCHANGED <<scn, state, actions, rng, ordered, cursor, logStart, again, room>>

\* An exception leaves stepBattle: nothing is returned and the caller keeps its state
Throw ==
  /\ pc = "thrown"
  /\ pc' = "idle"
  /\ outcome' = "threw"
  /\ room' = [room EXCEPT !.resolving = FALSE]
  /\ UNCHANGED <<scn, state, actions, rng, next, ordered, cursor, logStart, returned, again>>

\* The caller goes on with the state the call returned: state = stepBattle(state, ...);
\* the server (checkTurnResolution) then empties pendingActions, and closes the
\* room with battle_end or broadcasts the state
Adopt ==
  /\ pc = "returned"
  /\ state' = returned
  /\ pc' = "idle"
  /\ room' = IF room.resolving THEN afterTurn(room, returned) ELSE room
  /\ UNCHANGED <<scn, actions, rng, next, ordered, cursor, logStart, returned, outcome, again>>

\* The histories replayBattle is handed: the one recorded, and the same turns
\* without their rng lists (turn.rng is read with ?. and may be missing)
HistoryInputs(recorded) ==
  {recorded, [i \in DOMAIN recorded |-> [recorded[i] EXCEPT !.rng = <<>>]]}

\* What Math.random would return in a second execution
MathRandomAgain == <<75, 25>>

\* The call that has just returned is made a second time on an equal state, with
\* equal actions and a generator of the same values
Rerun ==
  /\ pc = "returned"
  /\ rng.kind = "cycle"
  /\ \E r \in {Call("stepBattle", <<state, actions, RngCycle(rng.vals, MathRandomAgain), TRUE>>)} :
         again' = [state |-> r.state, thrown |-> r.thrown, advice |-> NoAction,
                   underflow |-> FALSE, history |-> <<>>]
  /\ pc' = "reran"
  /\ UNCHANGED <<scn, state, actions, rng, next, ordered, cursor, logStart, returned, outcome, room>>

\* The recorded history of the battle so far is replayed from the initial state
Replay ==
  /\ pc = "idle"
  /\ scn \notin RoomScenarios
  /\ state.hasHistory
  /\ \E history \in HistoryInputs(state.history) :
       \E r \in {Call("replayBattle", <<InitialState(scn), history, MathRandomAgain>>)} :
         again' = [state |-> r.state, thrown |-> r.thrown, advice |-> NoAction,
                   underflow |-> r.underflow, history |-> history]
  /\ pc' = "replayed"
  /\ UNCHANGED <<scn, state, actions, rng, next, ordered, cursor, logStart, returned, outcome, room>>

\* The depths the searches are run with: 1, and also 2 before the first turn
SearchDepths == IF state.turn = 0 THEN {1, 2} ELSE {1}

\* The caller asks the minimax policy for a player's action
Minimax ==
  /\ pc = "idle"
  /\ scn \notin RoomScenarios
  /\ ~isBattleOver(state)
  /\ \E pid \in PlayerIds, depth \in SearchDepths :
       \E r \in {Call("getBestMoveMinimax", <<state, pid, depth>>)} :
           /\ again' = [state |-> state, thrown |-> r.thrown, advice |-> r.action,
                       underflow |-> FALSE, history |-> <<>>]
           /\ state' = r.input
           /\ pc' = IF r.hung THEN "looping" ELSE "searched"
  /\ UNCHANGED <<scn, actions, rng, next, ordered, cursor, logStart, returned, outcome, room>>

\* The caller asks the Monte-Carlo policy for a player's action
MCTS ==
  /\ pc = "idle"
  /\ scn \notin RoomScenarios
  /\ ~isBattleOver(state)
  /\ \E pid \in PlayerIds :
       \E r \in {Call("getBestMoveMCTS", <<state, pid, MathRandom>>)} :
           /\ state' = r.input
           /\ \E a \in IF r.thrown THEN {NoAction}
                        ELSE IF r.candidates = <<>> THEN {NoAdvice}
                        ELSE {r.candidates[i] : i \in 1..Len(r.candidates)} :
                again' = [state |-> state, thrown |-> r.thrown, advice |-> a,
                          underflow |-> FALSE, history |-> <<>>]
           /\ pc' = IF r.hung THEN "looping" ELSE "searched"
  /\ UNCHANGED <<scn, actions, rng, next, ordered, cursor, logStart, returned, outcome, room>>

\* What a client may send as its action: what the menu offers, every move of the
\* active creature, a move nobody knows, the switches to the slots 0..3, the use
\* of the held item, and a wait
Submissions(s, p) ==
  Menu[s][p]
    \cup {MoveAction(p, getActiveCreature(state, p).moves[i]) :
            i \in 1..Len(getActiveCreature(state, p).moves)}
    \cup {MoveAction(p, "unknown_move"), ItemAction(p), WaitAction(p)}
    \cup {SwitchAction(p, k) : k \in 0..3}

\* socket.on('submit_action'): a player who has an action pending is not heard
\* (room.dropped notes that this has happened);
\* an action that fails validateAction is answered with action_error; otherwise
\* it is stored and checkTurnResolution runs, which calls stepBattle (with
\* Math.random) once both players have an action pending
SubmitAction ==
  /\ pc = "idle"
  /\ room.open
  /\ \E p \in PlayerIds : \E a \in Submissions(scn, p) :
       \E v \in {validateAction(state, p, a)} :
          LET heard == [room EXCEPT !.last = a]
              stored == [heard EXCEPT !.pendingActions = Append(@, [a EXCEPT !.playerId = p])]
          IN  IF \E i \in 1..Len(room.pendingActions) : room.pendingActions[i].playerId = p
                \* if (room.pendingActions[socket.id]) return
                THEN /\ room' = [room EXCEPT !.dropped = TRUE]
                     /\ UNCHANGED <<state, actions, rng, pc, next, ordered, cursor, logStart>>
              ELSE IF ~v.ok
                THEN /\ room' = [heard EXCEPT !.emitted = Emit("action_error", p, v.message)]
                     /\ UNCHANGED <<state, actions, rng, pc, next, ordered, cursor, logStart>>
              ELSE IF noSwitchDefeat(state)
                THEN /\ room' = resolveNoSwitchDefeat(stored, state)
                     /\ UNCHANGED <<state, actions, rng, pc, next, ordered, cursor, logStart>>
              ELSE IF Len(stored.pendingActions) < Cardinality(PlayerIds)
                THEN /\ room' = stored
                     /\ UNCHANGED <<state, actions, rng, pc, next, ordered, cursor, logStart>>
              ELSE \E b \in {Call("beginTurn", <<state, stored.pendingActions,
                                                  RngMathRandom(MathRandom)>>)} :
                     /\ state.turn < MaxTurn
                     /\ room' = [stored EXCEPT !.resolving = TRUE]
                     /\ actions' = stored.pendingActions
                     /\ rng' = RngMathRandom(MathRandom)
                     /\ next' = b.w
                     /\ ordered' = b.ordered
                     /\ logStart' = b.logStart
                     /\ cursor' = 1
                     /\ pc' = IF b.w.thrown THEN "thrown"
                               ELSE IF b.ordered = <<>> THEN "ending" ELSE "acting"
                     /\ state' = b.input
  /\ UNCHANGED <<scn, returned, outcome, again>>

\* socket.on('join_room') of one more client while the room has its two players:
\* socket.data.roomId is set (room.knocked) before the room is found full and
\* the client is answered with error "Room is full"
JoinRoom ==
  /\ pc = "idle"
  /\ room.open
  /\ ~room.knocked
  /\ room' = [room EXCEPT !.knocked = TRUE, !.emitted = Emit("error", Guest, "Room is full")]
  /\ UNCHANGED <<scn, state, actions, rng, pc, next, ordered, cursor, logStart, returned,
                 outcome, again>>

\* socket.on('leave_room', { roomId }) of any socket that names the room
LeaveRoom ==
  /\ pc = "idle"
  /\ room.open
  /\ \E c \in Clients : room' = [handlePlayerExit(room, c) EXCEPT !.left = c]
  /\ UNCHANGED <<scn, state, actions, rng, pc, next, ordered, cursor, logStart, returned,
                 outcome, again>>

\* socket.on('disconnect') of a socket whose socket.data.roomId is the room's id
Disconnect ==
  /\ pc = "idle"
  /\ room.open
  /\ \E c \in PlayerIds \cup (IF room.knocked THEN {Guest} ELSE {}) :
       room' = [handlePlayerExit(room, c) EXCEPT !.left = c]
  /\ UNCHANGED <<scn, state, actions, rng, pc, next, ordered, cursor, logStart, returned,
                 outcome, again>>

Next ==
  \/ BeginTurn \/ ExecAction \/ EndTurn \/ Throw \/ Adopt \/ Rerun \/ Replay \/ Minimax \/ MCTS
  \/ SubmitAction \/ JoinRoom \/ LeaveRoom \/ Disconnect

Spec == Init /\ [][Next]_vars

(***************************************************************************)
(* Properties                                                              *)
(***************************************************************************)
\* C1: in every state a stepBattle call returns, every creature of both teams has
\* 0 <= hp <= maxHp; a heal (a damage event of negative amount) stops at maxHp.
C1_HpWithinMax ==
  \A p \in PlayerIds : \A i \in 1..Len(returned.players[p].team) :
    LET c == returned.players[p].team[i] IN 0 <= c.hp /\ c.hp <= c.maxHp

\* C2: in every state a stepBattle call returns, every entry of every creature's
\* stage map lies in [-6, +6], whatever modify_stage events were applied.
C2_StagesWithinSix ==
  \A p \in PlayerIds : \A i \in 1..Len(returned.players[p].team) : \A k \in StageKeys :
    returned.players[p].team[i].stages[k] \in -6..6

\* C3: each player's activeSlot is an index of an existing member of the team, in
\* the state the caller holds and in every state a call returns, also after switch
\* actions whose slot is missing, out of range, the current slot or a fainted member.
C3_ActiveSlotInRange ==
  \A p \in PlayerIds :
    /\ SlotOk(state.players[p], state.players[p].activeSlot)
    /\ SlotOk(returned.players[p], returned.players[p].activeSlot)

\* A call that was handed a switch to a slot that names no member has ended.
C3_Witness ==
  /\ pc = "idle"
  /\ outcome = "threw"
  /\ \E i \in 1..Len(actions) :
       /\ actions[i].type = "switch"
       /\ ~SlotOk(state.players[actions[i].playerId], actions[i].slot)

\* The field effects that are weathers
WeatherIds == {"sun", "rain", "hail", "sandstorm"}
Weathers(st) == {i \in 1..Len(st.field.global) : st.field.global[i].id \in WeatherIds}

\* C4: field.global never holds more than one weather entry (sun, rain, hail,
\* sandstorm): setting a weather removes the weather that was active.
C4_OneWeather == Cardinality(Weathers(returned)) <= 1

\* C5: an active creature with hp 0 carries a pending_switch status.
C5_FaintedActivePending ==
  \A p \in PlayerIds :
    LET c == getActiveCreature(returned, p)
    IN  c.hp = 0 => HasStatus(c, "pending_switch")

SameBattle(a, b) ==
  /\ a.players = b.players
  /\ a.field = b.field
  /\ a.turn = b.turn
  /\ a.log = b.log

\* C6: replaying the recorded history (each turn's recorded actions and recorded
\* draws) from the initial state yields the final state and log of the original run.
C6_ReplayReproduces ==
  (pc = "replayed" /\ again.history = state.history) =>
    (~again.thrown /\ SameBattle(again.state, state))

\* C7: a second execution of stepBattle on an equal state with equal actions and a
\* generator of the same values returns an equal state (log and history included).
C7_RerunEqual ==
  pc = "reran" => (~again.thrown /\ again.state = returned)

\* The call that was run twice resolved a delayed effect, whose handler draws.
C7_Witness ==
  /\ pc = "reran"
  /\ \E p \in PlayerIds : \E i \in 1..Len(getActiveCreature(state, p).statuses) :
       LET st == getActiveCreature(state, p).statuses[i]
       IN  st.id = "delayed_effect" /\ st.data.triggerTurn <= state.turn + 1
  /\ Len(next.rngLog) > Len(actions)

\* The ordered move actions of the turn being resolved
IsMove(a) == a.type \notin {"switch", "use_item"}
OrderedMovePairs ==
  {ij \in (1..Len(ordered)) \X (1..Len(ordered)) :
     ij[1] < ij[2] /\ IsMove(ordered[ij[1]]) /\ IsMove(ordered[ij[2]])}

\* The priority of a move action: the base priority of the move it was submitted
\* with (a status hook may have overridden the move of an action already executed)
\* after the actor's onModifyPriority hook (Prankster: +1 on a status move)
PriorityOf(a) ==
  LET move == Call("MoveDef", <<actions[a._src].moveId>>)
      base == IF move.priority # null THEN move.priority ELSE 0
  IN  IF AbilityOf(state, a.playerId) = "prankster" /\ isStatusMove(move)
        THEN base + 1 ELSE base
SpeedLess(x, y) == x[1] * y[2] < y[1] * x[2]

\* The first of two ordered move actions has the higher priority, or the same
\* priority and the higher speed
PriorityThenSpeed(a, b) ==
  /\ a._priority = PriorityOf(a) /\ b._priority = PriorityOf(b)
  /\ a._priority >= b._priority
  /\ a._priority = b._priority => ~SpeedLess(a._speed, b._speed)
TiedOnPriorityAndSpeed(a, b) == a._priority = b._priority /\ a._speed = b._speed

\* C9 as stated: of two move actions the one of higher priority executes first
\* regardless of speed, at equal priority the faster one, and at equal priority and
\* speed the order is decided by the tiebreaker draws alone (the lower draw first).
C9_OrderByDrawsAlone ==
  pc = "acting" =>
    \A ij \in OrderedMovePairs :
      LET a == ordered[ij[1]]
          b == ordered[ij[2]]
      IN  /\ PriorityThenSpeed(a, b)
          /\ TiedOnPriorityAndSpeed(a, b) => a._rand < b._rand

\* C9 amended: ... at equal priority and speed the lower tiebreaker draw executes
\* first, and when the two draws are equal too, the action submitted first.
C9_OrderDrawsThenSubmission ==
  pc = "acting" =>
    \A ij \in OrderedMovePairs :
      LET a == ordered[ij[1]]
          b == ordered[ij[2]]
      IN  /\ PriorityThenSpeed(a, b)
          /\ TiedOnPriorityAndSpeed(a, b) =>
                (a._rand < b._rand \/ (a._rand = b._rand /\ a._src < b._src))

\* Two move actions tie on priority, on speed and on their draws, and the turn
\* executes them in the order of submission.
C9_Witness ==
  /\ pc = "acting"
  /\ \E ij \in OrderedMovePairs :
       LET a == ordered[ij[1]]
           b == ordered[ij[2]]
       IN  /\ TiedOnPriorityAndSpeed(a, b) /\ a._rand = b._rand
           /\ a.playerId = "p2" /\ a._src = 1

\* C10: every switch action and every use_item action of a turn executes before
\* any move action of the turn, whatever the move's priority and the speeds.
C10_SwitchAndItemFirst ==
  pc = "acting" =>
    \A i \in 1..Len(ordered) : \A j \in 1..Len(ordered) :
      (i < j /\ ordered[j].type \in {"switch", "use_item"}) => ~IsMove(ordered[i])

\* C8: stepBattle, getBestMoveMinimax and getBestMoveMCTS leave the caller's state
\* and action objects as they were: the caller's state changes only when the
\* caller itself adopts a returned state, its actions only when it submits new ones.
C8_InputsUntouched ==
  [][ /\ (state' # state => (pc = "returned" /\ pc' = "idle"))
      /\ (actions' # actions => (pc = "idle" /\ pc' \in {"acting", "ending", "thrown"}))
    ]_vars

\* A call has returned in which a status hook overrode the move an action named.
C8_Witness ==
  /\ pc = "returned"
  /\ \E i \in 1..Len(ordered) :
       ordered[i].moveId # actions[ordered[i]._src].moveId

\* C11: every stepBattle call terminates, also under a generator that returns one
\* constant value and with an active creature that has Moody: no call, and no
\* search that makes such calls, ever stands in a loop that never exits.
C11_StepTerminates ==
  pc # "looping"

\* The switch action about to be executed names a member of the team
SwitchAtHand ==
  /\ pc = "acting"
  /\ ordered[cursor].type = "switch"
  /\ SlotOk(next.st.players[ordered[cursor].playerId], ordered[cursor].slot)

C14_NoActionAfterOver ==
  (pc = "acting" /\ isBattleOver(next.st) /\ IsMove(ordered[cursor])) =>
    Call("execAction", <<next, ordered[cursor], rng>>).skip

HasProtectEffect(moveId) ==
  LET fx == Call("MoveDef", <<moveId>>).effects
  IN  \E i \in 1..Len(fx) : fx[i].type = "protect"

\* The turns on end, up to the last turn the caller's state records, in which the
\* creature named protected itself
RECURSIVE ProtectStreak(_, _)
ProtectStreak(turns, name) ==
  IF turns = <<>> THEN 0
  ELSE LET log == turns[Len(turns)].log
       IN  IF \E i \in 1..Len(log) : log[i] = Msg("is now protect", name)
             THEN 1 + ProtectStreak(SubSeq(turns, 1, Len(turns) - 1), name)
             ELSE 0

\* C15: the k-th consecutive successful protect succeeds only if its draw is at
\* most 0.5^(k-1): when the action just executed ran a move with a protect effect
\* and its creature is protected, the draw of the effect (the step's latest draw)
\* times 2^(k-1) is at most 1, k - 1 being the successes of the turns just before.
C15_ProtectHalves ==
  (/\ pc \in {"acting", "ending"}
   /\ cursor > 1
   /\ IsMove(ordered[cursor - 1])
   /\ HasProtectEffect(ordered[cursor - 1].moveId)
   /\ HasStatus(getActiveCreature(next.st, ordered[cursor - 1].playerId), "protect"))
  => next.rngLog[Len(next.rngLog)]
       * Pow2(ProtectStreak(state.history,
                            getActiveCreature(next.st, ordered[cursor - 1].playerId).name))
       <= 100

\* The moves a creature is disabled from using
DisabledMoves(c) ==
  {c.statuses[i].data.moveId : i \in {j \in 1..Len(c.statuses) : c.statuses[j].id = "disable_move"}}

\* C16: while a creature carries disable_move for a move m, no action of that
\* creature executes m's effects, neither when m is submitted nor when another
\* status (encore, lock_move) overrides the submitted move to m.
C16_DisabledMoveNotRun ==
  (pc = "acting" /\ IsMove(ordered[cursor])) =>
    \A r \in {Call("execAction", <<next, ordered[cursor], rng>>)} :
      r.action.moveId \in DisabledMoves(getActiveCreature(next.st, ordered[cursor].playerId))
        => r.skip

LockedIntoLast(c) ==
  \E i \in 1..Len(c.statuses) :
    c.statuses[i].id = "lock_move" /\ c.statuses[i].data.mode = "force_last_move"

\* C17: under lock_move in force_last_move mode the move a creature executes is the
\* move it used last, whatever was submitted, and the history record of the turn
\* lists the move ids that were executed, not the submitted ones.
C17_LockedIntoLastMove ==
  /\ (pc = "acting" /\ IsMove(ordered[cursor])) =>
       LET c == getActiveCreature(next.st, ordered[cursor].playerId)
       IN  (LockedIntoLast(c) /\ c.volatileData.lastMove # undef) =>
             \A r \in {Call("execAction", <<next, ordered[cursor], rng>>)} :
               ~r.skip => r.action.moveId = c.volatileData.lastMove
  /\ pc = "returned" =>
       LET listed == returned.history[Len(returned.history)].actions
       IN  /\ Len(listed) = Len(ordered)
           /\ \A i \in 1..Len(ordered) :
                listed[i].playerId = ordered[i].playerId /\ listed[i].moveId = ordered[i].moveId

\* A turn has returned in which a locked creature was handed another move than its
\* last one: it executed the last one again, and the record lists that move.
C17_Witness ==
  /\ pc = "returned"
  /\ \E i \in 1..Len(ordered) :
       LET before == getActiveCreature(state, ordered[i].playerId)
           after == getActiveCreature(returned, ordered[i].playerId)
       IN  /\ LockedIntoLast(before)
           /\ before.volatileData.lastMove # undef
           /\ actions[ordered[i]._src].moveId # before.volatileData.lastMove
           /\ ordered[i].moveId = before.volatileData.lastMove
           /\ after.volatileData.lastMove = before.volatileData.lastMove
           /\ returned.history[Len(returned.history)].actions[i].moveId
                = before.volatileData.lastMove
           /\ \E k \in 1..Len(returned.log) :
                returned.log[k] = Msg("used " \o before.volatileData.lastMove, before.name)

\* One of the target's types is immune to the move's type
Immune(moveType, targetTypes) ==
  /\ moveType # undef
  /\ \E i \in 1..Len(targetTypes) :
       /\ targetTypes[i] \in DOMAIN typeImmunities
       /\ moveType \in typeImmunities[targetTypes[i]]

\* C18: a damage effect that hits deals 0 damage exactly when one of the target's
\* types is immune to the move's type, and at least 1 otherwise: so for every
\* damage effect of the move about to be executed, in the working state at hand.
C18_ZeroOnlyWhenImmune ==
  (pc = "acting" /\ IsMove(ordered[cursor])) =>
    LET a == ordered[cursor]
        move == Call("MoveDef", <<a.moveId>>)
        targetId == IF a.targetId # undef THEN a.targetId ELSE Other(a.playerId)
        target == getActiveCreature(next.st, targetId)
        ctx == Ctx(a.playerId, targetId, a.moveId, next.st.turn, rng)
    IN  \A i \in {j \in 1..Len(move.effects) : move.effects[j].type = "damage"} :
          \A d \in {Call("calcDamage", <<<<move.effects[i].power, 1>>, next.st, next, ctx, rng>>)} :
            IF Immune(move.type, target.types) THEN d.amount = 0 ELSE d.amount >= 1

\* C18 as stated, on the target's hp: whenever a move whose one effect is a damage
\* effect is executed and hits a target that is not protecting itself, the target's
\* hp is unchanged exactly when one of the target's types is immune to the move's type.
C18_HpUnchangedOnlyWhenImmune ==
  (pc = "acting" /\ IsMove(ordered[cursor])) =>
    \A r \in {Call("execAction", <<next, ordered[cursor], rng>>)} :
      LET a == ordered[cursor]
          move == Call("MoveDef", <<r.action.moveId>>)
          targetId == IF a.targetId # undef THEN a.targetId ELSE Other(a.playerId)
          before == getActiveCreature(next.st, targetId)
          after == getActiveCreature(r.w.st, targetId)
          hit == \E i \in (Len(next.st.log) + 1)..Len(r.w.st.log) :
                   r.w.st.log[i].m = "used " \o move.name
      IN  (/\ ~r.skip /\ ~r.w.thrown
           /\ Len(move.effects) = 1 /\ move.effects[1].type = "damage"
           /\ before.hp > 0 /\ hit
           /\ \A i \in 1..Len(before.statuses) : before.statuses[i].id # "protect")
          => ((after.hp = before.hp) <=> Immune(move.type, before.types))

\* In one battle a damage effect has hit a target one of whose types is immune (0
\* damage, the other type being neutral) and one has hit for the least damage, 1,
\* where the product of base, roll and effectiveness was below 1.
C18_Witness ==
  /\ pc \in {"acting", "ending"}
  /\ \E i \in 1..Len(next.st.log) : \E j \in 1..Len(next.st.log) :
       /\ next.st.log[i].m = "took damage" /\ next.st.log[i].x = 0
       /\ next.st.log[i].y = next.st.log[i].z
       /\ next.st.log[j].m = "took damage" /\ next.st.log[j].x = 1
       /\ next.st.log[j].z = next.st.log[j].y - 1
  /\ Immune("poison", getActiveCreature(next.st, "p2").types)
  /\ getTypeEffectiveness("steel", getActiveCreature(next.st, "p2").types) = <<1, 4>>

\* The damage events among a list of events
Hits(ev) == Cardinality({k \in DOMAIN ev : ev[k].type = "damage"})

\* C19: for a repeat effect with a range around one damage effect, applied in the
\* working state at hand for the move about to be executed: under Skill Link the
\* damage is emitted max times, the last event reports max hits and no draw is
\* spent on the count; otherwise one draw r is spent on the count beside those of
\* the hits, the damage is emitted min + floor(r * (max - min + 1)) times, and
\* that number lies between min and max.
C19_RepeatCount ==
  (pc = "acting" /\ IsMove(ordered[cursor])) =>
    LET a == ordered[cursor]
        move == Call("MoveDef", <<a.moveId>>)
        targetId == IF a.targetId # undef THEN a.targetId ELSE Other(a.playerId)
        ctx == Ctx(a.playerId, targetId, a.moveId, next.st.turn, rng)
    IN  \A i \in {j \in 1..Len(move.effects) :
                    /\ move.effects[j].type = "repeat" /\ move.effects[j].timesMax # null
                    /\ Len(move.effects[j].effects) = 1
                    /\ move.effects[j].effects[1].type = "damage"} :
          \A r \in {Call("applyEffect", <<next, move.effects[i], ctx>>)} :
          \A one \in {Call("applyEffects", <<next, move.effects[i].effects, ctx>>)} :
            LET min == move.effects[i].times
                max == move.effects[i].timesMax
                perHit == one.w.ri - next.ri
                roll == RngValue(rng, next)
                n == Hits(r.ev)
            IN  IF getActiveCreature(next.st, a.playerId).ability = "skill_link"
                  THEN /\ n = max
                       /\ r.w.ri - next.ri = max * perHit
                       /\ r.ev[Len(r.ev)].type = "log"
                       /\ r.ev[Len(r.ev)].message.m = "Hit time(s)"
                       /\ r.ev[Len(r.ev)].message.x = max
                  ELSE /\ n = min + ((roll * (max - min + 1)) \div 100)
                       /\ n \in min..max
                       /\ r.w.ri - next.ri = 1 + n * perHit

\* In one turn a Skill Link attacker has hit 5 times with the 2-to-5 move and an
\* attacker without it has hit 4 times, on the draw 0.5 for the count.
C19_Witness ==
  /\ pc \in {"acting", "ending"}
  /\ getActiveCreature(next.st, "p1").ability = "skill_link"
  /\ getActiveCreature(next.st, "p2").ability # "skill_link"
  /\ \A i \in 1..Len(ordered) : ordered[i].moveId = "icicle_spear"
  /\ \E i \in (logStart + 1)..Len(next.st.log) : \E j \in (logStart + 1)..Len(next.st.log) :
       /\ i < j
       /\ next.st.log[i].m = "Hit time(s)" /\ next.st.log[i].x = 4
       /\ next.st.log[j].m = "Hit time(s)" /\ next.st.log[j].x = 5

\* The moves whose one effect is a delay around one log effect, which marks its
\* executions in the log
MarkedDelays ==
  {m \in DOMAIN moves :
     /\ Len(moves[m].effects) = 1 /\ moves[m].effects[1].type = "delay"
     /\ Len(moves[m].effects[1].effects) = 1
     /\ moves[m].effects[1].effects[1].type = "log"}
DelayTurns(m) == moves[m].effects[1].afterTurns
DelayTiming(m) ==
  IF moves[m].effects[1].timing = undef THEN "turn_end" ELSE moves[m].effects[1].timing
Marks(log, m) ==
  Cardinality({i \in DOMAIN log : log[i].m = moves[m].effects[1].effects[1].message})

\* The marked delay that player p executed in turn t of the history, or undef
DelayUsed(hist, p, t) ==
  LET used == {m \in MarkedDelays :
                 \E i \in DOMAIN hist[t].actions :
                   /\ hist[t].actions[i].playerId = p /\ hist[t].actions[i].type = "move"
                   /\ hist[t].actions[i].moveId = m}
  IN  IF used = {} THEN undef ELSE CHOOSE m \in used : TRUE

\* The delay p executed in turn t was applied: the creature it aims at carried no
\* delay of an earlier turn any more (a delay of n turns applied in turn u is
\* carried to the end of turn u + n)
RECURSIVE DelayApplied(_, _, _)
DelayApplied(hist, p, t) ==
  /\ DelayUsed(hist, p, t) # undef
  /\ \A u \in 1..(t - 1) :
       DelayApplied(hist, p, u) => u + DelayTurns(DelayUsed(hist, p, u)) < t

\* The applications of delay m in the turns 1..last that are due in turn T
DueIn(hist, m, last, T) ==
  {<<p, t>> \in PlayerIds \X (1..last) :
     /\ DelayApplied(hist, p, t) /\ DelayUsed(hist, p, t) = m
     /\ t + DelayTurns(m) = T}

\* With startAtOnce: a turn_start delay of 0 turns is held to be due in the turn it
\* is applied in, as any other delay; without: it is held never to be due.
DelayFiresOnce(startAtOnce) ==
  /\ outcome = "returned" =>
       \A T \in 1..Len(returned.history) : \A m \in MarkedDelays :
         Marks(returned.history[T].log, m) =
           IF DelayTurns(m) = 0 /\ DelayTiming(m) = "turn_start" /\ ~startAtOnce THEN 0
           ELSE Cardinality(DueIn(returned.history, m, T, T))
  /\ pc \in {"acting", "ending"} =>
       \A m \in MarkedDelays :
         Marks(SubSeq(next.st.log, logStart + 1, Len(next.st.log)), m) =
           IF DelayTiming(m) = "turn_start" /\ DelayTurns(m) > 0
             THEN Cardinality(DueIn(next.st.history, m, Len(next.st.history), next.st.turn))
             ELSE 0

\* C20 as stated: every delay of n turns applied in turn t to a creature that stays
\* on the field has executed its effects exactly once in turn t + n and in no other
\* turn, a turn_start delay before the first action of that turn and a turn_end
\* delay after the last.
C20_DelayFiresInTurnTPlusN ==
  DelayFiresOnce(TRUE)

\* C20, amended: the same for every delay of n >= 1 turns and for a turn_end delay
\* of 0 turns, applied to a creature that carries no delay yet; a turn_start delay
\* of 0 turns never executes its effects.
C20_DelayFiresOnceUnlessStartAtOnce ==
  DelayFiresOnce(FALSE)

\* Two delays of one turn applied in turn 1, one of either timing, have each fired
\* once in turn 2, and not in turn 1.
C20_Witness ==
  /\ pc = "returned" /\ returned.turn = 2
  /\ DelayApplied(returned.history, "p1", 1) /\ DelayApplied(returned.history, "p2", 1)
  /\ DelayUsed(returned.history, "p1", 1) = "late_start"
  /\ DelayUsed(returned.history, "p2", 1) = "late_end"
  /\ Marks(returned.history[1].log, "late_start") = 0
  /\ Marks(returned.history[1].log, "late_end") = 0
  /\ Marks(returned.history[2].log, "late_start") = 1
  /\ Marks(returned.history[2].log, "late_end") = 1

\* The over_time statuses with the timing named that the active creatures of a
\* state carry, each around one log effect, which marks its executions in the log
OverTimeCarried(st, timing) ==
  {s \in UNION {{getActiveCreature(st, p).statuses[i] :
                   i \in 1..Len(getActiveCreature(st, p).statuses)} : p \in PlayerIds} :
     /\ s.id = "over_time_effect" /\ s.data.timing = timing
     /\ Len(s.data.effects) = 1 /\ s.data.effects[1].type = "log"}
MarksOf(log, s) ==
  Cardinality({i \in DOMAIN log : log[i].m = s.data.effects[1].message})

\* The turn-end hooks run the effects of every turn_end over_time status carried
\* at the end of the turn once, and the status is gone after its last turn
OverTimeAtTurnEnd ==
  pc = "ending" =>
    \A w \in {Call("endTurn", <<next, ordered, logStart, rng, TRUE>>)} :
      /\ \A s \in OverTimeCarried(next.st, "turn_end") :
           /\ MarksOf(w.st.log, s) = MarksOf(next.st.log, s) + 1
           /\ s.remainingTurns = 1 => s.data \notin {x.data : x \in OverTimeCarried(w.st, "turn_end")}
      /\ \A m \in {"ot_end1", "ot_end2"} :
           (\A s \in OverTimeCarried(next.st, "turn_end") :
              s.data.effects # moves[m].effects[1].effects)
           => Marks(w.st.log, m) = Marks(next.st.log, m)

\* The turn-start hooks run the effects of every turn_start over_time status that
\* the caller's state carries once, before the first action of the turn
OverTimeAtTurnStart ==
  (pc = "acting" /\ cursor = 1) =>
    \A s \in OverTimeCarried(state, "turn_start") :
      MarksOf(SubSeq(next.st.log, logStart + 1, Len(next.st.log)), s) = 1

\* C21: an over_time effect executes its effect list once at every hook that
\* matches its timing while the status lasts (turn_start: the turn-start hooks,
\* turn_end: the turn-end hooks), and never after it has expired.
C21_OverTimeEveryMatchingHook ==
  OverTimeAtTurnStart /\ OverTimeAtTurnEnd

\* The lines a log has gained since the working state at hand
NewLines(st) == {st.log[i] : i \in (Len(next.st.log) + 1)..Len(st.log)}

\* C22: a switch action of a player whose active creature has hp > 0, is not
\* ghost-type and has not Shadow Tag itself leaves the player's activeSlot as it is
\* whenever the opposing active has Shadow Tag; the switch action of a player
\* whose active creature is ghost-type or fainted is not prevented: it names the
\* new active slot.
C22_ShadowTagTraps ==
  SwitchAtHand =>
    \A r \in {Call("execAction", <<next, ordered[cursor], rng>>)} :
      LET p == ordered[cursor].playerId
          active == getActiveCreature(next.st, p)
          foe == getActiveCreature(next.st, Other(p))
          isGhost == \E i \in 1..Len(active.types) : active.types[i] = "ghost"
      IN  /\ (active.hp > 0 /\ ~isGhost /\ foe.ability = "shadow_tag"
               /\ active.ability # "shadow_tag")
              => r.w.st.players[p].activeSlot = next.st.players[p].activeSlot
          /\ (isGhost \/ active.hp <= 0)
              => /\ r.w.st.players[p].activeSlot = ordered[cursor].slot
                 /\ \A l \in NewLines(r.w.st) : l.m # "couldn't switch out"

\* Facing Shadow Tag, a creature has tried to switch out and stayed, has fainted
\* in the same turn, and has been switched out in the next.
C22_Witness ==
  /\ pc \in {"acting", "ending"} /\ cursor > 1
  /\ ordered[cursor - 1].type = "switch" /\ ordered[cursor - 1].playerId = "p2"
  /\ getActiveCreature(next.st, "p1").ability = "shadow_tag"
  /\ "couldn't switch out" \in {state.log[i].m : i \in 1..Len(state.log)}
  /\ state.players["p2"].activeSlot = 0
  /\ getActiveCreature(state, "p2").hp = 0
  /\ next.st.players["p2"].activeSlot = 1

\* The places of a list of events where a reflection is announced
Bounces(evs) ==
  {i \in DOMAIN evs : evs[i].type = "log" /\ evs[i].message.m = "bounced the move back"}

\* C23: when the events of the move about to be executed are run through the
\* ability event modifiers, every reflected event follows its announcement, is
\* aimed at the original source (the attacker) and carries meta.bounced = true;
\* no event other than the reflected ones carries the flag; each original event is
\* reflected at most once; and running the result through the modifiers once more
\* reflects nothing again, also when both active creatures have Magic Bounce.
C23_BouncedOnce ==
  (pc = "acting" /\ IsMove(ordered[cursor])) =>
    LET a == ordered[cursor]
        move == Call("MoveDef", <<a.moveId>>)
        targetId == IF a.targetId # undef THEN a.targetId ELSE Other(a.playerId)
        ctx == Ctx(a.playerId, targetId, a.moveId, next.st.turn, rng)
    IN  \A r \in {Call("applyEffects", <<next, move.effects, ctx>>)} :
        \A out \in {Call("applyAbilityEventModifiers", <<r.w.st, r.ev>>)} :
        \A twice \in {Call("applyAbilityEventModifiers", <<r.w.st, out>>)} :
          /\ \A i \in Bounces(out) :
               /\ i < Len(out)
               /\ out[i + 1].meta.bounced
               /\ out[i + 1].targetId = a.playerId
               /\ out[i + 1].meta.source = targetId
          /\ \A i \in DOMAIN out : out[i].meta.bounced => (i > 1 /\ (i - 1) \in Bounces(out))
          /\ Cardinality(Bounces(out)) <= Len(r.ev)
          /\ Cardinality(Bounces(twice)) = Cardinality(Bounces(out))

\* Both active creatures have Magic Bounce, and the poison a creature aimed at the
\* other has come back to it once: it is poisoned, the other is not.
C23_Witness ==
  /\ pc \in {"acting", "ending"} /\ cursor > 1
  /\ getActiveCreature(next.st, "p1").ability = "magic_bounce"
  /\ getActiveCreature(next.st, "p2").ability = "magic_bounce"
  /\ ordered[cursor - 1].playerId = "p1" /\ ordered[cursor - 1].moveId = "poison_spore"
  /\ HasStatus(getActiveCreature(next.st, "p1"), "poison")
  /\ ~HasStatus(getActiveCreature(next.st, "p2"), "poison")
  /\ Cardinality({i \in (logStart + 1)..Len(next.st.log) :
                    next.st.log[i].m = "bounced the move back"}) = 1

\* The team slots of a player that hold a creature with hp > 0 other than the active
Reliefs(st, p) ==
  {k \in 0..(Len(st.players[p].team) - 1) :
     k # st.players[p].activeSlot /\ st.players[p].team[k + 1].hp > 0}
\* The moves of the active creature that have PP left
MovesWithPp(st, p) ==
  LET active == getActiveCreature(st, p)
  IN  {active.moves[i] : i \in {j \in 1..Len(active.moves) :
         ~(active.moves[j] \in DOMAIN active.movePp /\ active.movePp[active.moves[j]] = 0)}}
MustSwitch(st, p) ==
  getActiveCreature(st, p).hp <= 0 \/ HasStatus(getActiveCreature(st, p), "pending_switch")

\* What getAvailableActions answers for a creature that need not switch, and never
\* answers: one move action per move with PP, one switch per relief, no other
\* action, no switch to the active slot or to a fainted creature
MovesAndSwitches(st, p, acts) ==
  /\ Len(acts) = Cardinality(MovesWithPp(st, p)) + Cardinality(Reliefs(st, p))
  /\ \A m \in MovesWithPp(st, p) :
       \E i \in DOMAIN acts : acts[i] = MoveAction(p, m)
  /\ \A k \in Reliefs(st, p) :
       \E i \in DOMAIN acts : acts[i] = SwitchAction(p, k)
NoBadSwitch(st, p, acts) ==
  \A i \in DOMAIN acts : acts[i].type = "switch" => acts[i].slot \in Reliefs(st, p)

\* C24: for the state the caller holds and either player, getAvailableActions
\* returns only switch actions whenever the active creature is fainted or carries
\* pending_switch; otherwise one move action per move with PP left plus one switch
\* action per non-active, non-fainted slot; and never a switch to the active slot
\* or to a fainted creature.
C24_AvailableActions ==
  \A p \in PlayerIds :
    \A acts \in {Call("getAvailableActions", <<state, p>>)} :
      /\ MustSwitch(state, p) => \A i \in DOMAIN acts : acts[i].type = "switch"
      /\ ~MustSwitch(state, p) => MovesAndSwitches(state, p, acts)
      /\ NoBadSwitch(state, p, acts)

\* C24, amended: a creature that is fainted or carries pending_switch gets only
\* switch actions when some other slot holds a creature with hp > 0; with no such
\* slot a fainted creature gets one wait action and a creature with hp > 0 gets what
\* a creature that need not switch gets: one move action per move with PP left plus
\* one switch action per non-active, non-fainted slot; and no list holds a switch to
\* the active slot or to a fainted creature.
C24_AvailableActionsWithFallbacks ==
  \A p \in PlayerIds :
    \A acts \in {Call("getAvailableActions", <<state, p>>)} :
      /\ (MustSwitch(state, p) /\ Reliefs(state, p) # {})
           => (acts # <<>> /\ \A i \in DOMAIN acts : acts[i].type = "switch")
      /\ (MustSwitch(state, p) /\ Reliefs(state, p) = {})
           => IF getActiveCreature(state, p).hp <= 0 THEN acts = <<WaitAction(p)>>
              ELSE MovesAndSwitches(state, p, acts)
      /\ ~MustSwitch(state, p) => MovesAndSwitches(state, p, acts)
      /\ NoBadSwitch(state, p, acts)

\* The caller holds a state in which both actives carry pending_switch with hp > 0:
\* the one with a relief may only switch, the one without is offered its moves,
\* one of them a move that has run out of PP and is left out.
C24_Witness ==
  /\ pc = "idle"
  /\ \A p \in PlayerIds :
       HasStatus(getActiveCreature(state, p), "pending_switch")
         /\ getActiveCreature(state, p).hp > 0
  /\ Reliefs(state, "p1") = {} /\ Reliefs(state, "p2") = {1}
  /\ getActiveCreature(state, "p1").moves = <<"pivot_test", "one_shot">>
  /\ MovesWithPp(state, "p1") = {"pivot_test"}

\* The depth d - 1 maximin value for pid of the state that one step with the two
\* actions under the fixed generator produces
ValueAfter(st, pid, mine, theirs, d) ==
  LET r == Call("stepBattle", <<st, <<mine, theirs>>, FixedRng, FALSE>>)
  IN  Call("solve", <<r.state, pid, d - 1>>).score

\* C25: asked in a state the caller holds, for either player and every depth of
\* the searches, getBestMoveMinimax returns (when it returns) one of the player's
\* available actions whose worst case, the least value over the opponent's
\* available actions, is not below the worst case of any other available action.
C25_MinimaxMaximin ==
  (pc = "idle" /\ ~isBattleOver(state)) =>
    \A pid \in PlayerIds, depth \in SearchDepths :
      \A r \in {Call("getBestMoveMinimax", <<state, pid, depth>>)} :
      \A my \in {Call("getAvailableActions", <<state, pid>>)} :
      \A op \in {Call("getAvailableActions", <<state, Other(pid)>>)} :
        (~r.thrown /\ my # <<>> /\ op # <<>>) =>
          \A worst \in {[i \in DOMAIN my |->
                           RMinOf({ValueAfter(state, pid, my[i], op[j], depth) :
                                     j \in DOMAIN op})]} :
            \E i \in DOMAIN my :
              /\ my[i] = r.action
              /\ \A k \in DOMAIN my : RLeq(worst[k], worst[i])

\* A search has returned an action that is not the first of the available ones:
\* the worst case of the first one is below the worst case of the one advised.
C25_Witness ==
  /\ pc = "searched"
  /\ ~again.thrown
  /\ again.advice.type \in {"move", "switch"}
  /\ \A my \in {Call("getAvailableActions", <<again.state, again.advice.playerId>>)} :
       /\ Len(my) > 1
       /\ my[1] # again.advice
       /\ \E i \in DOMAIN my : my[i] = again.advice

(***************************************************************************)
(* The draws of the searches: every draw returns 0.5                       *)
(***************************************************************************)
\* What the move about to be executed does when every draw returns 0.5, as in
\* the searches: the hits of its ranged repeat effects (attacker without Skill
\* Link), and for its damage effects the critical roll, the critical stage, the
\* accuracy in percent and whether the hit is missed (no damage event).
FixedDraws ==
  LET a == ordered[cursor]
      move == Call("MoveDef", <<a.moveId>>)
      targetId == IF a.targetId # undef THEN a.targetId ELSE Other(a.playerId)
      ctx == Ctx(a.playerId, targetId, a.moveId, next.st.turn, FixedRng)
      attacker == getActiveCreature(next.st, a.playerId)
      Ranged(e) == /\ e.type = "repeat" /\ e.timesMax # null
                   /\ Len(e.effects) = 1 /\ e.effects[1].type = "damage"
  IN  [repeats |->
         IF attacker.ability = "skill_link" THEN {}
         ELSE {[min |-> move.effects[i].times, max |-> move.effects[i].timesMax,
                hits |-> Hits(Call("applyEffect", <<next, move.effects[i], ctx>>).ev)] :
               i \in {j \in 1..Len(move.effects) : Ranged(move.effects[j])}},
       damages |->
         IF attacker.ability \in {"hustle", "compound_eyes", "parental_bond"} THEN {}
         ELSE {[accuracy |-> IF move.effects[i].accuracy = null THEN 100
                             ELSE move.effects[i].accuracy,
                stage |-> onModifyCritChance(next.st, a.playerId, move.critRate,
                                             getActiveCreature(next.st, targetId)),
                crit |-> Call("rollCritical", <<next.st, next, ctx, FixedRng>>).crit,
                missed |-> Hits(Call("applyEffect", <<next, move.effects[i], ctx>>).ev) = 0] :
               i \in {j \in 1..Len(move.effects) : move.effects[j].type = "damage"}}]

\* C26 as stated: when every draw returns 0.5, a ranged repeat without Skill Link
\* hits exactly min times, no critical roll succeeds, and a hit passes its
\* accuracy check exactly when the accuracy is at least 50%.
C26_FixedRngPinsToMin ==
  (pc = "acting" /\ IsMove(ordered[cursor])) =>
    \A f \in {FixedDraws} :
      /\ \A r \in f.repeats : r.hits = r.min
      /\ \A d \in f.damages : ~d.crit /\ (d.missed <=> d.accuracy < 50)

\* C26 amended: when every draw returns 0.5, a ranged repeat without Skill Link
\* hits min + floor((max - min + 1) / 2) times (min only when max = min), a
\* critical roll fails at the stages 1 and 2 and succeeds at every stage from 3
\* (the draw is not consulted there), and a hit passes its accuracy check exactly
\* when the accuracy is at least 50%.
C26_FixedRngDraws ==
  (pc = "acting" /\ IsMove(ordered[cursor])) =>
    \A f \in {FixedDraws} :
      /\ \A r \in f.repeats : r.hits = r.min + ((r.max - r.min + 1) \div 2)
      /\ \A d \in f.damages : /\ d.crit <=> d.stage >= 3
                              /\ d.missed <=> d.accuracy < 50

\* With the draws of the turn all 0.5, a Merciless attacker is about to hit a
\* poisoned target with a move of critical rate 1 and accuracy 50%: the hit
\* passes and is critical; in an earlier turn its 2-to-5 move has made 4 hits.
C26_Witness ==
  /\ pc = "acting" /\ IsMove(ordered[cursor])
  /\ rng.vals = <<50>>
  /\ ordered[cursor].moveId = "slash_test"
  /\ getActiveCreature(next.st, ordered[cursor].playerId).ability = "merciless"
  /\ \E d \in FixedDraws.damages : d.crit /\ d.stage = 999 /\ ~d.missed /\ d.accuracy = 50
  /\ \E i \in 1..logStart : next.st.log[i].m = "Hit time(s)" /\ next.st.log[i].x = 4

\* C27: a replay in which some turn has called the generator more often than the
\* turn's record is long does not return a state: it fails.
C27_UnderflowFails ==
  (pc = "replayed" /\ again.underflow) => again.thrown

(***************************************************************************)
(* The room's submissions                                                  *)
(***************************************************************************)
\* The submissions that are not legal: a non-switch while the active creature is
\* fainted or must switch; a switch to the active slot, to a fainted creature
\* or to a slot the team has not; a move the active creature does not know or
\* that has 0 PP; the use of an item by a creature that holds no berry
Illegal(st, p, a) ==
  LET player == st.players[p]
      active == getActiveCreature(st, p)
  IN  \/ a.type # "switch" /\ (active.hp <= 0 \/ HasStatus(active, "pending_switch"))
      \/ a.type = "switch" /\ (\/ a.slot \notin 0..(Len(player.team) - 1)
                               \/ a.slot = player.activeSlot
                               \/ player.team[a.slot + 1].hp <= 0)
      \/ a.type = "move" /\ (\/ a.moveId \notin {active.moves[i] : i \in 1..Len(active.moves)}
                             \/ a.moveId \in DOMAIN active.movePp /\ active.movePp[a.moveId] = 0)
      \/ a.type = "use_item" /\ getItemId(active) \notin BerryItems

\* C28: a step in which the room has heard a submission that is not legal (from a
\* player without a pending action) answers the submitter with action_error and
\* changes neither the battle state nor pendingActions, and no stepBattle call
\* begins.
C28_InvalidRejected ==
  [][(pc = "idle" /\ room.open /\ room' # room
        \* (the step is a submission that was heard: no join, no exit, no drop)
        /\ room'.knocked = room.knocked /\ room'.left = room.left
        /\ room'.dropped = room.dropped
        /\ room'.last.playerId \in PlayerIds
        /\ Illegal(state, room'.last.playerId, room'.last))
       => /\ room'.emitted.event = "action_error"
          /\ room'.emitted.to = room'.last.playerId
          /\ room'.pendingActions = room.pendingActions
          /\ room'.open
          /\ state' = state
          /\ pc' = "idle"
          /\ returned' = returned]_vars

\* With the other player's action pending, a player asked for a switch to the
\* slot of its active creature and was told so; the pending action is still the
\* only one and the first turn has not begun.
C28_Witness ==
  /\ pc = "idle" /\ room.open
  /\ state.turn = 0
  /\ room.emitted = Emit("action_error", "p2", "same creature")
  /\ room.last = SwitchAction("p2", 0)
  /\ Len(room.pendingActions) = 1 /\ room.pendingActions[1].playerId = "p1"

\* A player of a battle that is not over whose active creature stands (hp > 0),
\* has every move at 0 PP, and has no survivor on the bench
NoLegalAction(st, p) ==
  LET player == st.players[p]
      active == getActiveCreature(st, p)
  IN  /\ ~isBattleOver(st)
      /\ active.hp > 0
      /\ \A i \in 1..Len(active.moves) :
           active.moves[i] \in DOMAIN active.movePp /\ active.movePp[active.moves[i]] = 0
      /\ \A k \in 0..(Len(player.team) - 1) :
           k # player.activeSlot => player.team[k + 1].hp <= 0

\* C29: for a player without a legal move or switch between two turns, the
\* choosers (chooseHighestPower, getBestMoveMinimax) return a wait action, and
\* validateAction accepts a wait action of that player.
C29_WaitWhenNoLegalAction ==
  \A p \in PlayerIds :
    (pc = "idle" /\ NoLegalAction(state, p)) =>
      /\ Call("chooseHighestPower", <<state, p>>).type = "wait"
      /\ Call("getBestMoveMinimax", <<state, p, 1>>).action.type = "wait"
      /\ validateAction(state, p, WaitAction(p)).ok

\* The creatures that have used a berry they held: the one holder of a berry in
\* the team its player began with, once the log reports that the player's
\* creature used that berry
AteBerry(st, p, i) ==
  LET team0 == InitialState(scn).players[p].team
  IN  /\ team0[i].item \in BerryItems
      /\ \A j \in 1..Len(team0) : team0[j].item \in BerryItems => j = i
      /\ \E k \in 1..Len(st.log) :
           st.log[k] = Msg("used its " \o team0[i].item, st.players[p].name)

\* C30: in every state a stepBattle call returns, a creature that has used its
\* berry carries the berry_consumed status.
C30_BerryConsumedStays ==
  \A p \in PlayerIds : \A i \in 1..Len(returned.players[p].team) :
    AteBerry(returned, p, i) => HasStatus(returned.players[p].team[i], "berry_consumed")

(***************************************************************************)
(* damage_ratio                                                            *)
(***************************************************************************)
\* The damage_ratio effects of the move about to be executed, each with its
\* ratio, its target's max HP, and the target's hp before and after the effect's
\* events are applied to the working state
RatioEffects ==
  LET a == ordered[cursor]
      move == Call("MoveDef", <<a.moveId>>)
      targetId == IF a.targetId # undef THEN a.targetId ELSE Other(a.playerId)
      ctx == Ctx(a.playerId, targetId, a.moveId, next.st.turn, rng)
  IN  {[ratio |-> move.effects[i].ratioMaxHp,
        maxHp |-> getActiveCreature(next.st, resolveTarget(move.effects[i].target, ctx)).maxHp,
        before |-> getActiveCreature(next.st, resolveTarget(move.effects[i].target, ctx)).hp,
        after |-> getActiveCreature(
                    Call("applyEventsW",
                         <<Call("applyEffect", <<next, move.effects[i], ctx>>).w,
                           Call("applyEffect", <<next, move.effects[i], ctx>>).ev>>).st,
                    resolveTarget(move.effects[i].target, ctx)).hp] :
       i \in {j \in 1..Len(move.effects) : move.effects[j].type = "damage_ratio"}}

\* C31: a damage_ratio effect with a positive ratio takes max(1, floor(maxHp *
\* ratio)) from its target's hp, down to 0 at most; with a negative ratio it
\* raises the hp of a target that is below its max HP.
C31_DamageRatio ==
  (pc = "acting" /\ IsMove(ordered[cursor])) =>
    \A e \in RatioEffects :
      /\ e.ratio[1] > 0 =>
           e.after = Max(0, e.before - Max(1, (e.maxHp * e.ratio[1]) \div e.ratio[2]))
      /\ (e.ratio[1] < 0 /\ e.before < e.maxHp) => e.after > e.before

(***************************************************************************)
(* The phases of a step                                                    *)
(***************************************************************************)
\* Scenario phases: where a line of a turn's log comes from. 1 the banner, 2 the
\* status hooks at turn start (the delay of late_start), 3 the actions, 4 the
\* turn-end status hooks of player 0 (Leech Seed on Alpha), 5 those of player 1
\* (the probe on Beta), 6 the turn-end ability hooks (Moody); 0 none of these
PhaseOf(line) ==
  CASE line.m = "--- Turn" -> 1
    [] line.m = "late_start fired" -> 2
    [] line.m \in {"is now leech_seed", "already has leech_seed", "is now delayed_effect",
                   "already has delayed_effect", "is now over_time_effect",
                   "already has over_time_effect"} -> 3
    [] line.m \in {"health is sapped by Leech Seed", "took damage"} -> 4
    [] line.m \in {"probe saw less", "probe saw more"} -> 5
    [] line.m = "stages" -> 6
    [] OTHER -> 0

\* The log of the turn the last call resolved, as its history entry records it
LastTurnLog == returned.history[Len(returned.history)].log

\* C32: in scenario phases the lines of every resolved turn come in the order of
\* the phases (turn-start status hooks, actions, turn-end status hooks of player
\* 0 then of player 1, turn-end ability hooks); the probe in player 1's hook
\* reports Beta's hp as it is after the events of player 0's hook (the Leech
\* Seed heal) were applied; a status of one remaining turn has run its turn-end
\* hook in the turn whose tick removes it; and the history entry, appended
\* last, holds the log up to its end.
C32_PhaseOrder ==
  (pc = "returned" /\ scn = "phases" /\ returned.hasHistory) =>
    \A log \in {LastTurnLog} :
      /\ \A i \in 1..Len(log) : PhaseOf(log[i]) # 0
      /\ \A i \in 1..Len(log) : \A j \in 1..Len(log) :
           i < j => PhaseOf(log[i]) <= PhaseOf(log[j])
      /\ \A i \in 1..Len(log) :
           PhaseOf(log[i]) = 5 =>
             \E h \in 1..(i - 1) :
               /\ log[h].m = "took damage" /\ log[h].n = "Beta"
               /\ log[i].m = "probe saw less" <=> log[h].z * 5 < 3 * 100
      /\ \A k \in 1..Len(state.players["p2"].team[1].statuses) :
           LET st == state.players["p2"].team[1].statuses[k]
           IN  (st.id = "over_time_effect" /\ st.remainingTurns = 1) =>
                 /\ \E i \in 1..Len(log) : PhaseOf(log[i]) = 5
                 /\ ~HasStatus(returned.players["p2"].team[1], "over_time_effect")
      /\ log = SubSeq(returned.log, Len(returned.log) - Len(log) + 1, Len(returned.log))

\* The second turn of scenario phases has gone through every phase: the delay of
\* the first turn fired at its start, the probe was set up by an action and ran
\* at its end after the Leech Seed heal had taken Beta from under 3/5 to above,
\* and Moody changed stages.
C32_Witness ==
  /\ pc = "returned" /\ scn = "phases" /\ returned.turn = 2
  /\ {PhaseOf(LastTurnLog[i]) : i \in 1..Len(LastTurnLog)} = 1..6
  /\ \E i \in 1..Len(LastTurnLog) : \E h \in 1..(i - 1) :
       /\ LastTurnLog[i].m = "probe saw more"
       /\ LastTurnLog[h].m = "took damage" /\ LastTurnLog[h].n = "Beta"
       /\ LastTurnLog[h].y * 5 < 3 * 100 /\ LastTurnLog[h].z * 5 >= 3 * 100

(***************************************************************************)
(* The duration tick                                                       *)
(***************************************************************************)
\* The statuses of creature i of player p that had n turns left before the turn
\* and that the creature carries with n turns or more after it
Unticked(p, i) ==
  {k \in 1..Len(state.players[p].team[i].statuses) :
     LET s0 == state.players[p].team[i].statuses[k]
     IN  /\ s0.remainingTurns # null
         /\ \E j \in 1..Len(returned.players[p].team[i].statuses) :
              LET s1 == returned.players[p].team[i].statuses[j]
              IN  s1.id = s0.id /\ s1.remainingTurns # null
                  /\ s1.remainingTurns >= s0.remainingTurns}

\* C33: after a resolved turn no status of any creature, active or benched,
\* that had a number of turns left still has that many: each was decremented by
\* 1 (and removed at 0).
C33_TickEveryCreature ==
  (pc = "returned" /\ returned.turn = state.turn + 1) =>
    \A p \in PlayerIds : \A i \in 1..Len(state.players[p].team) : Unticked(p, i) = {}

(***************************************************************************)
(* Power points                                                            *)
(***************************************************************************)
\* The remaining PP of move m of creature i of player p: the counter if the
\* creature has one, else what ensureMovePp would set it to (null: unlimited)
PpOf(st, p, i, m) ==
  IF m \in DOMAIN st.players[p].team[i].movePp
    THEN st.players[p].team[i].movePp[m] ELSE MoveDef(m).pp

\* The state the step works on: the caller's before stepBattle begins, the
\* working copy after
Working == IF pc = "idle" THEN state ELSE next.st

\* The iteration of the action loop that is about to run reaches the effects of
\* move m for creature i of player p (no continue is taken before them)
RunsEffects(p, i, m) ==
  /\ pc = "acting"
  /\ ordered[cursor].type \notin {"switch", "use_item"}
  /\ ordered[cursor].playerId = p
  /\ i = next.st.players[p].activeSlot + 1
  /\ \E r \in {Call("execAction", <<next, ordered[cursor], rng>>)} :
       ~r.skip /\ r.action.moveId = m

SlotsOf(p) == 1..Len(state.players[p].team)

HitsIn(events) ==
  Cardinality({k \in 1..Len(events) :
                 events[k].type = "damage" /\ ~events[k].meta.parentalBond})

\* The damaging effects (a damage effect, or a repeat of one) of the move about
\* to be executed: whether the hit count is drawn, the hits that landed and the
\* number of values the effect takes from the generator
DamageDraws ==
  LET a == ordered[cursor]
      move == Call("MoveDef", <<a.moveId>>)
      targetId == IF a.targetId # undef THEN a.targetId ELSE Other(a.playerId)
      ctx == Ctx(a.playerId, targetId, a.moveId, next.st.turn, rng)
      Damaging(e) ==
        \/ e.type = "damage"
        \/ e.type = "repeat" /\ \A k \in 1..Len(e.effects) : e.effects[k].type = "damage"
  IN  {[moveId |-> a.moveId,
        counted |-> IF move.effects[i].type = "repeat" /\ move.effects[i].timesMax # null
                      THEN 1 ELSE 0,
        hits |-> HitsIn(Call("applyEffect", <<next, move.effects[i], ctx>>).ev),
        draws |-> Call("applyEffect", <<next, move.effects[i], ctx>>).w.ri - next.ri] :
       i \in {j \in 1..Len(move.effects) : Damaging(move.effects[j])}}

\* C35: a damaging effect of which at least one hit lands takes from the
\* generator the hit count (for a ranged repeat), one accuracy roll, and for each
\* hit one critical-hit roll and one damage roll.
C35_DrawsOfDamagingMove ==
  (pc = "acting" /\ IsMove(ordered[cursor]) /\ rng.kind # "absent") =>
    \A e \in DamageDraws :
      e.hits > 0 => e.draws = e.counted + 1 + 2 * e.hits

(***************************************************************************)
(* Protection                                                              *)
(***************************************************************************)
\* The places of a turn's log at which a creature that protected itself earlier
\* in the same turn (and so carries protect until the tick at the end of the
\* turn) loses hp
HurtWhileProtected(log) ==
  {ij \in (1..Len(log)) \X (1..Len(log)) :
     /\ ij[1] < ij[2]
     /\ \E p \in {"p1", "p2"} : \E c \in 1..Len(returned.players[p].team) :
          LET name == returned.players[p].team[c].name
          IN  /\ log[ij[1]] = Msg("is now protect", name)
              /\ log[ij[2]].m = "took damage" /\ log[ij[2]].n = name
              /\ log[ij[2]].z < log[ij[2]].y}

\* C36: a creature that carries protect takes no damage that originates from
\* the other player: in the log of a resolved turn no creature loses hp after
\* it protected itself (in the modelled teams no protecting creature carries a
\* source of damage of its own side).
C36_ProtectedTakesNoDamage ==
  (pc = "returned" /\ returned.hasHistory) => HurtWhileProtected(LastTurnLog) = {}

(***************************************************************************)
(* One entry per status id                                                 *)
(***************************************************************************)
\* The pairs of entries of the same id among the statuses of a creature
Doubles(c) ==
  {ij \in (1..Len(c.statuses)) \X (1..Len(c.statuses)) :
     ij[1] < ij[2] /\ c.statuses[ij[1]].id = c.statuses[ij[2]].id}

\* C37: no creature of a state the engine returns carries two status entries of
\* the same id (no effect of the modelled moves applies a status with stack =
\* true).
C37_OneEntryPerStatus ==
  \A p \in PlayerIds : \A i \in 1..Len(returned.players[p].team) :
    Doubles(returned.players[p].team[i]) = {}

(***************************************************************************)
(* The room's turns                                                        *)
(***************************************************************************)
\* The places of player p's actions in a list of actions
ActionsOf(list, p) == {i \in 1..Len(list) : list[i].playerId = p}

\* C38: in every step of a room, (1) a stepBattle call begins only with the
\* pending actions as its action list, one action per player, each of which
\* validateAction accepts for the state of the turn; (2) no player ever has two
\* actions pending; (3) a pending action stays as it is until the pending
\* actions are emptied (a further submission of its player changes nothing);
\* (4) when the call has returned the pending actions are empty.
C38_TurnResolution ==
  [][room.open =>
       /\ (pc = "idle" /\ pc' # "idle") =>
            /\ room'.resolving
            /\ actions' = room'.pendingActions
            /\ Len(actions') = Cardinality(PlayerIds)
            /\ \A p \in PlayerIds : \A i \in ActionsOf(actions', p) :
                 validateAction(state, p, actions'[i]).ok
       /\ \A p \in PlayerIds : Cardinality(ActionsOf(room'.pendingActions, p)) <= 1
       /\ room'.pendingActions # <<>> =>
            \A i \in 1..Len(room.pendingActions) :
              /\ i <= Len(room'.pendingActions)
              /\ room'.pendingActions[i] = room.pendingActions[i]
       /\ (room.resolving /\ ~room'.resolving) => room'.pendingActions = <<>>]_vars

\* A player submitted a second action while its first was pending, the other
\* player's action then let the turn be resolved with one action of each, and
\* the room waits for the actions of the second turn.
C38_Witness ==
  /\ pc = "idle" /\ room.open /\ room.dropped
  /\ state.turn = 1 /\ room.pendingActions = <<>>
  /\ room.emitted.event = "battle_update"
  /\ Len(state.history) = 1
  /\ \A p \in PlayerIds : Cardinality(ActionsOf(state.history[1].actions, p)) = 1

(***************************************************************************)
(* The winner announced                                                    *)
(***************************************************************************)
HasSurvivor(st, p) == \E i \in 1..Len(st.players[p].team) : st.players[p].team[i].hp > 0

\* C39: when the room was closed with battle_end after a resolved turn (the
\* pending actions emptied, no socket left), the winner announced is a player
\* with a creature of hp > 0 in the resulting state, or null if no player has
\* one.
C39_WinnerHasSurvivor ==
  (pc = "idle" /\ scn \in RoomScenarios /\ ~room.open /\ room.emitted.event = "battle_end"
     /\ room.left = undef /\ room.pendingActions = <<>>) =>
    IF \E p \in PlayerIds : HasSurvivor(state, p)
      THEN room.winner \in PlayerIds /\ HasSurvivor(state, room.winner)
      ELSE room.winner = NoWinner

(***************************************************************************)
(* Leaving a room                                                          *)
(***************************************************************************)
\* C40: the exit (leave_room or disconnect) of the client whose join_room was
\* answered with "Room is full" leaves the room in place and sends no
\* battle_end to its players.
C40_RejectedClientCannotEnd ==
  [][(room.open /\ room.knocked /\ room'.left = Guest)
       => room'.open /\ room'.emitted.event # "battle_end"]_vars

====
